---- MODULE Spec2Model ----
(***************************************************************************)
(* Model of the gmail-rules-engine: the rule store written by load_rules,  *)
(* the processed_emails ledger, and RulesEngine.process_email with its     *)
(* helpers, one engine instance per process.                               *)
(*                                                                         *)
(* Strings are sequences of one-character strings, so that case folding    *)
(* and substring search are computed rather than assumed.  Time is counted *)
(* in whole days.                                                          *)
(***************************************************************************)
EXTENDS Integers, Sequences, FiniteSets, TLC

(***************************************************************************)
(* Bounds of the model.                                                    *)
(***************************************************************************)
\* process_email passes started over the whole behaviour
MaxPasses == 2
\* runs after the first, each starting with load_rules
MaxReloads == 1
\* days the wall clock may advance
MaxNow == 1

Engines == {1, 2}

NoneVal == "None"

(***************************************************************************)
(* Strings.                                                                *)
(***************************************************************************)
\* str.lower() on one character
LowerChar(c) ==
    CASE c = "A" -> "a"
      [] c = "B" -> "b"
      [] OTHER -> c

\* str.lower()
Lower(s) == [i \in 1..Len(s) |-> LowerChar(s[i])]

\* needle in haystack
IsSubstring(needle, hay) ==
    \E k \in 0..(Len(hay) - Len(needle)) :
        SubSeq(hay, k + 1, k + Len(needle)) = needle

\* `x or ''`
OrEmpty(x) == IF x = NoneVal THEN <<>> ELSE x

Digits == {"0", "1", "2", "3"}

DigitVal(c) ==
    CASE c = "0" -> 0
      [] c = "1" -> 1
      [] c = "2" -> 2
      [] c = "3" -> 3

RECURSIVE DigitsVal(_)
DigitsVal(s) ==
    IF s = <<>> THEN 0
    ELSE 10 * DigitsVal(SubSeq(s, 1, Len(s) - 1)) + DigitVal(s[Len(s)])

AllDigits(s) == Len(s) > 0 /\ \A i \in 1..Len(s) : s[i] \in Digits

\* int(value): [ok |-> TRUE, val |-> n], or ok = FALSE for ValueError
ParseInt(s) ==
    IF AllDigits(s) THEN [ok |-> TRUE, val |-> DigitsVal(s)]
    ELSE IF Len(s) > 1 /\ s[1] = "-" /\ AllDigits(Tail(s))
         THEN [ok |-> TRUE, val |-> 0 - DigitsVal(Tail(s))]
    ELSE IF Len(s) > 1 /\ s[1] = "+" /\ AllDigits(Tail(s))
         THEN [ok |-> TRUE, val |-> DigitsVal(Tail(s))]
    ELSE [ok |-> FALSE, val |-> 0]

(***************************************************************************)
(* Condition evaluation.                                                   *)
(***************************************************************************)
DaysPerMonth == 30

\* _evaluate_string_condition lowering the message text only
EvaluateStringConditionOneSided(condition, value) ==
    CASE condition.predicate = "contains" ->
             IsSubstring(condition.value, Lower(value))
      [] condition.predicate = "does_not_contain" ->
             ~IsSubstring(condition.value, Lower(value))
      [] condition.predicate = "equals" ->
             condition.value = Lower(value)
      [] condition.predicate = "does_not_equal" ->
             condition.value /= Lower(value)
      [] OTHER -> FALSE

\* RulesEngine._evaluate_string_condition
EvaluateStringCondition(condition, value) ==
    CASE condition.predicate = "contains" ->
             IsSubstring(Lower(condition.value), Lower(value))
      [] condition.predicate = "does_not_contain" ->
             ~IsSubstring(Lower(condition.value), Lower(value))
      [] condition.predicate = "equals" ->
             Lower(condition.value) = Lower(value)
      [] condition.predicate = "does_not_equal" ->
             Lower(condition.value) /= Lower(value)
      [] OTHER -> FALSE

\* _evaluate_date_condition without `if value <= 0: return False`
EvaluateDateConditionNoGuard(condition, date, clock) ==
    LET parsed == ParseInt(condition.value)
        value  == parsed.val
        delta  == IF condition.unit = "months" THEN value * DaysPerMonth ELSE value
        age    == clock - date.days
    IN  IF ~parsed.ok THEN FALSE
        ELSE IF condition.predicate = "less_than"
             THEN (IF date.aware THEN FALSE ELSE age < delta)
        ELSE IF condition.predicate = "greater_than"
             THEN (IF date.aware THEN FALSE ELSE age > delta)
        ELSE FALSE

\* RulesEngine._evaluate_date_condition; date = [days, aware], utcnow() is
\* naive, and naive - aware raises TypeError, which is caught
EvaluateDateCondition(condition, date, clock) ==
    LET parsed == ParseInt(condition.value)
        value  == parsed.val
        delta  == IF condition.unit = "months" THEN value * DaysPerMonth ELSE value
        age    == clock - date.days
    IN  IF ~parsed.ok THEN FALSE
        ELSE IF value <= 0 THEN FALSE
        ELSE IF condition.predicate = "less_than"
             THEN (IF date.aware THEN FALSE ELSE age < delta)
        ELSE IF condition.predicate = "greater_than"
             THEN (IF date.aware THEN FALSE ELSE age > delta)
        ELSE FALSE

\* _evaluate_condition letting nothing match a message that is read
EvaluateConditionUnreadOnly(condition, email, clock) ==
    IF email.is_read THEN FALSE
    ELSE CASE condition.field = "from" ->
                  EvaluateStringCondition(condition, email.from_address)
           [] condition.field = "subject" ->
                  EvaluateStringCondition(condition, OrEmpty(email.subject))
           [] condition.field = "message" ->
                  EvaluateStringCondition(condition, OrEmpty(email.content))
           [] condition.field = "received_date" ->
                  EvaluateDateCondition(condition, email.received_date, clock)
           [] OTHER -> FALSE

\* RulesEngine._evaluate_condition
EvaluateCondition(condition, email, clock) ==
    CASE condition.field = "from" ->
             EvaluateStringCondition(condition, email.from_address)
      [] condition.field = "subject" ->
             EvaluateStringCondition(condition, OrEmpty(email.subject))
      [] condition.field = "message" ->
             EvaluateStringCondition(condition, OrEmpty(email.content))
      [] condition.field = "received_date" ->
             EvaluateDateCondition(condition, email.received_date, clock)
      [] OTHER -> FALSE

\* _evaluate_rule with all() and any() exchanged
EvaluateRuleSwapped(rule, conditions, email, clock) ==
    IF conditions = <<>> THEN FALSE
    ELSE LET results == [k \in 1..Len(conditions) |->
                            EvaluateCondition(conditions[k], email, clock)]
         IN  IF rule.predicate = "all"
             THEN \E k \in 1..Len(results) : results[k]
             ELSE \A k \in 1..Len(results) : results[k]

\* _evaluate_rule without its `if not conditions` guard
EvaluateRuleUnguarded(rule, conditions, email, clock) ==
    LET results == [k \in 1..Len(conditions) |->
                       EvaluateCondition(conditions[k], email, clock)]
    IN  IF rule.predicate = "all"
        THEN \A k \in 1..Len(results) : results[k]
        ELSE \E k \in 1..Len(results) : results[k]

\* RulesEngine._evaluate_rule
EvaluateRule(rule, conditions, email, clock) ==
    IF conditions = <<>> THEN FALSE
    ELSE LET results == [k \in 1..Len(conditions) |->
                            EvaluateCondition(conditions[k], email, clock)]
         IN  IF rule.predicate = "all"
             THEN \A k \in 1..Len(results) : results[k]
             ELSE \E k \in 1..Len(results) : results[k]

(***************************************************************************)
(* Messages (rows of the emails table).  The engine changes only is_read   *)
(* and current_label; the other columns are fixed per message.             *)
(***************************************************************************)
Msgs == {"m1", "m2"}

EmailData(m) ==
    IF m = "m1"
    THEN [gmail_id |-> "m1", from_address |-> <<"a", "b">>, subject |-> <<"B">>,
          content |-> NoneVal, received_date |-> [days |-> 0, aware |-> FALSE]]
    ELSE [gmail_id |-> "m2", from_address |-> <<"b">>, subject |-> NoneVal,
          content |-> <<"a">>, received_date |-> [days |-> 0 - 1, aware |-> FALSE]]

\* Email.is_read default False, Email.current_label default 'INBOX'
EmailDefaults == [is_read |-> FALSE, current_label |-> "INBOX"]

\* the Email object the engine reads: fixed columns plus the mutable ones
EmailObject(m, mail) ==
    [gmail_id |-> m, from_address |-> EmailData(m).from_address,
     subject |-> EmailData(m).subject, content |-> EmailData(m).content,
     received_date |-> EmailData(m).received_date,
     is_read |-> mail.is_read, current_label |-> mail.current_label]

(***************************************************************************)
(* Rule configurations (config/rules.json as validated by RulesConfig).    *)
(***************************************************************************)
Ids == {"R1", "R2", "R3"}

Cond(f, p, v, u) == [field |-> f, predicate |-> p, value |-> v, unit |-> u]
Act(t, d) == [type |-> t, destination |-> d]
RuleCfg(id, p, a, cs, as) ==
    [identifier |-> id, predicate |-> p, active |-> a, conditions |-> cs, actions |-> as]

FromHasA == Cond("from", "contains", <<"A">>, NoneVal)
SubjectIsB == Cond("subject", "equals", <<"b">>, NoneVal)
OlderThanADay == Cond("received_date", "greater_than", <<"1">>, "days")
BodyLacksB == Cond("message", "does_not_contain", <<"b">>, NoneVal)

ReadThenMove == <<Act("mark_as_read", NoneVal), Act("move_message", "Archive")>>
Unread == <<Act("mark_as_unread", NoneVal)>>
Read == <<Act("mark_as_read", NoneVal)>>
Move == <<Act("move_message", "Archive")>>

\* two actions, matches m1 only
RuleA(id) == RuleCfg(id, "all", TRUE, <<FromHasA>>, ReadThenMove)
\* matches m1 by its subject, m2 once it is more than a day old
RuleB == RuleCfg("R2", "any", TRUE, <<SubjectIsB, OlderThanADay>>, Unread)
\* no conditions
RuleC(as) == RuleCfg("R3", "all", TRUE, <<>>, as)
\* matches both messages, no actions
RuleE == RuleCfg("R3", "any", TRUE, <<BodyLacksB>>, <<>>)
\* matches both messages, one action
RuleS(as) == RuleCfg("R1", "any", TRUE, <<BodyLacksB>>, as)

\* the configuration files considered; identifiers are unique in each
Configs ==
    { <<>>,
      <<RuleA("R1")>>, <<RuleA("R2")>>,
      <<RuleA("R1"), RuleB>>,
      <<RuleE, RuleA("R1")>>, <<RuleA("R1"), RuleE>>,
      <<RuleC(Read)>>, <<RuleC(Unread)>>, <<RuleC(Move)>>,
      <<RuleS(Read)>>, <<RuleS(Unread)>>, <<RuleS(Move)>> }

\* load_rules: the rows of rules / rule_conditions / rule_actions after a
\* successful load; the row id is the position, every row is active
LoadRules(cfg) ==
    [k \in 1..Len(cfg) |->
        [id |-> k, identifier |-> cfg[k].identifier, predicate |-> cfg[k].predicate,
         active |-> TRUE,
         conditions |-> cfg[k].conditions,
         actions |-> [a \in 1..Len(cfg[k].actions) |->
                        [action_type |-> cfg[k].actions[a].type,
                         action_value |-> IF cfg[k].actions[a].type = "move_message"
                                          THEN cfg[k].actions[a].destination
                                          ELSE NoneVal]]]]

(***************************************************************************)
(* The processed_emails ledger.                                            *)
(***************************************************************************)
\* rows of `ledger` with this gmail_id, in table order
RecordsFor(led, gmail_id) == SelectSeq(led, LAMBDA r : r.gmail_id = gmail_id)

\* the row added last instead of the row with the latest stamp
LatestRecordByPosition(recs) == recs[Len(recs)]

\* max(processed_records, key=processed_at): the first row with the latest stamp
LatestRecord(recs) ==
    LET best == CHOOSE k \in 1..Len(recs) :
                   /\ \A q \in 1..Len(recs) : recs[q].processed_at <= recs[k].processed_at
                   /\ \A q \in 1..(k - 1) : recs[q].processed_at < recs[k].processed_at
    IN  recs[best]

\* _is_already_processed answering for any record of the message, whatever
\* identifier it was written under
IsAlreadyProcessedAnyRule(led, gmail_id, rule_identifier) ==
    LET recs == RecordsFor(led, gmail_id)
    IN  IF recs = <<>> THEN <<FALSE, "">>
        ELSE <<TRUE, LatestRecord(recs).rule_identifier>>

\* _is_already_processed comparing the message only, not the rule identifier
IsAlreadyProcessedNoMatch(led, gmail_id, rule_identifier) ==
    LET recs == RecordsFor(led, gmail_id)
    IN  IF recs = <<>> THEN <<FALSE, "">>
        ELSE <<FALSE, LatestRecord(recs).rule_identifier>>

\* RulesEngine._is_already_processed: <<was_processed, previous_identifier>>
IsAlreadyProcessed(led, gmail_id, rule_identifier) ==
    LET recs == RecordsFor(led, gmail_id)
    IN  IF recs = <<>> THEN <<FALSE, "">>
        ELSE IF \E k \in 1..Len(recs) : recs[k].rule_identifier = rule_identifier
             THEN <<TRUE, rule_identifier>>
        ELSE <<FALSE, LatestRecord(recs).rule_identifier>>

\* the query of _mark_as_processed: position of the first row of the pair, 0 for None
FindProcessed(led, gmail_id, rule_identifier) ==
    IF \E k \in 1..Len(led) :
           led[k].gmail_id = gmail_id /\ led[k].rule_identifier = rule_identifier
    THEN CHOOSE k \in 1..Len(led) :
           /\ led[k].gmail_id = gmail_id /\ led[k].rule_identifier = rule_identifier
           /\ \A q \in 1..(k - 1) :
                ~(led[q].gmail_id = gmail_id /\ led[q].rule_identifier = rule_identifier)
    ELSE 0

\* processed_emails without its unique constraint
UniqueConstraintMissing(led, gmail_id, rule_identifier) == TRUE

\* UniqueConstraint('gmail_id', 'rule_identifier'): may this row be inserted?
UniqueConstraintOk(led, gmail_id, rule_identifier) ==
    ~\E k \in 1..Len(led) :
        led[k].gmail_id = gmail_id /\ led[k].rule_identifier = rule_identifier

(***************************************************************************)
(* State.                                                                  *)
(***************************************************************************)
VARIABLES
    rulesDb,     \* rules, rule_conditions, rule_actions: one row per rule
    ledger,      \* processed_emails: sequence of rows
    emails,      \* emails table: committed is_read / current_label per message
    now,         \* datetime.utcnow(), in days
    eng,         \* per engine instance: position in process_email and its locals
    passNo,      \* passes started so far
    trace,       \* per engine: what its current (or last) pass did, in order
    callPasses,  \* per (message, identifier): passes that issued a port call
    markWrites,  \* per (message, identifier): completed _mark_as_processed writes
    reloads,     \* load_rules calls after the first
    last,        \* per engine: message, rule snapshot and trace of its previous pass
    probe,       \* the last direct call of an evaluator: its arguments and outcome
    mailbox      \* per message of the Gmail account: the ids of its labels

vars == <<rulesDb, ledger, emails, now, eng, passNo, trace, callPasses, markWrites,
          reloads, last, probe, mailbox>>

\* the labels of the account's messages when the program starts: m1 unread
\* in the inbox, m2 read in the inbox
InitialMailbox ==
    [m \in Msgs |-> IF m = "m1" THEN {"INBOX", "UNREAD"} ELSE {"INBOX"}]

\* no evaluator has been called directly
NoProbe == [kind |-> "none"]

Idle(pass, m, rules, mail, success, err) ==
    [pc |-> "idle", pass |-> pass, email |-> m, mail |-> mail, rules |-> rules, i |-> 0,
     j |-> 0, conditions |-> <<>>, actions |-> <<>>, success |-> success,
     found |-> 0, err |-> err]

Init ==
    /\ rulesDb \in {LoadRules(c) : c \in Configs}
    /\ ledger = <<>>
    /\ emails = [m \in Msgs |-> EmailDefaults]
    /\ now = 0
    /\ eng = [e \in Engines |-> Idle(0, NoneVal, <<>>, EmailDefaults, "unbound", NoneVal)]
    /\ passNo = 0
    /\ trace = [e \in Engines |-> <<>>]
    /\ callPasses = [p \in Msgs \X Ids |-> {}]
    /\ markWrites = [p \in Msgs \X Ids |-> 0]
    /\ reloads = 0
    /\ last = [e \in Engines |-> [pass |-> 0, email |-> NoneVal, rules |-> <<>>, trace |-> <<>>]]
    /\ probe = NoProbe
    /\ mailbox = InitialMailbox

Event(k, rid, op, arg, ok) == [k |-> k, rid |-> rid, op |-> op, arg |-> arg, ok |-> ok]

(***************************************************************************)
(* process_email, one step per database or port interaction.               *)
(***************************************************************************)
\* `for rule in rules`: on to the next rule, or out of the loop
NextRule(r) ==
    IF r.i < Len(r.rules)
    THEN [r EXCEPT !.pc = "check", !.i = r.i + 1, !.j = 0, !.conditions = <<>>,
                   !.actions = <<>>, !.found = 0]
    ELSE Idle(r.pass, r.email, r.rules, EmailDefaults, "unbound", NoneVal)

\* an exception leaves process_email
Raise(r, err) == Idle(r.pass, r.email, r.rules, EmailDefaults, "unbound", err)

\* a failed last action raised instead of logged
AfterActionsFailFast(r) ==
    IF r.success = "unbound" THEN [Raise(r, "UnboundLocalError") EXCEPT !.pc = "raised"]
    ELSE IF r.success = "true" THEN [r EXCEPT !.pc = "markq"]
    ELSE [Raise(r, "ActionFailed") EXCEPT !.pc = "raised"]

\* the rule is marked whatever its last action returned
AfterActionsUngated(r) ==
    IF r.success = "unbound" THEN [Raise(r, "UnboundLocalError") EXCEPT !.pc = "raised"]
    ELSE [r EXCEPT !.pc = "markq"]

\* `if success:` after the action loop (engine.py line 85); the local is
\* unbound until some action of this pass has run
AfterActions(r) ==
    IF r.success = "unbound" THEN [Raise(r, "UnboundLocalError") EXCEPT !.pc = "raised"]
    ELSE IF r.success = "true" THEN [r EXCEPT !.pc = "markq"]
    ELSE NextRule(r)

\* the rule query without its filter on Rule.active
ActiveRulesUnfiltered(db) ==
    [k \in 1..Len(db) |->
        [id |-> db[k].id, identifier |-> db[k].identifier, predicate |-> db[k].predicate]]

\* the rows of an engine's rule snapshot: db.query(Rule).filter(Rule.active == True)
ActiveRules(db) ==
    LET rows == SelectSeq(db, LAMBDA row : row.active)
    IN  [k \in 1..Len(rows) |->
            [id |-> rows[k].id, identifier |-> rows[k].identifier,
             predicate |-> rows[k].predicate]]

\* db.query(RuleCondition).filter(RuleCondition.rule_id == rule.id)
ConditionsOf(db, rule_id) ==
    IF rule_id \in 1..Len(db) THEN db[rule_id].conditions ELSE <<>>

\* the action rows of a rule fetched in reverse order
ActionsOfReversed(db, rule_id) ==
    IF rule_id \in 1..Len(db)
    THEN [k \in 1..Len(db[rule_id].actions) |->
             db[rule_id].actions[Len(db[rule_id].actions) + 1 - k]]
    ELSE <<>>

\* db.query(RuleAction).filter(RuleAction.rule_id == rule.id)
ActionsOf(db, rule_id) ==
    IF rule_id \in 1..Len(db) THEN db[rule_id].actions ELSE <<>>

Quiet(e) == eng[e].pc \in {"idle", "raised"}

\* process_email is entered for message m (lines 20-27)
StartPass(e, m) ==
    /\ Quiet(e)
    /\ passNo < MaxPasses
    /\ passNo' = passNo + 1
    /\ LET rules == ActiveRules(rulesDb)
           r0 == Idle(passNo + 1, m, rules, emails[m], "unbound", NoneVal)
       IN  eng' = [eng EXCEPT ![e] = NextRule(r0)]
    /\ trace' = [trace EXCEPT ![e] = <<>>]
    /\ last' = [last EXCEPT ![e] = [pass |-> eng[e].pass, email |-> eng[e].email,
                                     rules |-> eng[e].rules, trace |-> trace[e]]]
    /\ UNCHANGED <<rulesDb, ledger, emails, now, callPasses, markWrites, reloads, probe, mailbox>>

\* lines 29-33: the ledger check of the current rule
CheckLedger(e) ==
    LET r == eng[e]
        rule == r.rules[r.i]
        res == IsAlreadyProcessed(ledger, r.email, rule.identifier)
    IN  /\ r.pc = "check"
        /\ eng' = [eng EXCEPT ![e] = IF res[1] THEN NextRule(r) ELSE [r EXCEPT !.pc = "eval"]]
        /\ trace' = [trace EXCEPT ![e] =
                        Append(@, Event("check", rule.identifier, "", res[2], res[1]))]
        /\ UNCHANGED <<rulesDb, ledger, emails, now, passNo, callPasses, markWrites, reloads, last, probe, mailbox>>

\* lines 38-49 and 90-91: fetch conditions and actions, evaluate the rule
Evaluate(e) ==
    LET r == eng[e]
        rule == r.rules[r.i]
        conditions == ConditionsOf(rulesDb, rule.id)
        actions == ActionsOf(rulesDb, rule.id)
        match == EvaluateRule(rule, conditions, EmailObject(r.email, r.mail), now)
        r1 == [r EXCEPT !.conditions = conditions, !.actions = actions]
    IN  /\ r.pc = "eval"
        /\ eng' = [eng EXCEPT ![e] =
                      IF ~match THEN NextRule(r1)
                      ELSE IF actions = <<>> THEN AfterActions(r1)
                      ELSE [r1 EXCEPT !.pc = "act", !.j = 1]]
        /\ trace' = [trace EXCEPT ![e] =
                        Append(@, Event("eval", rule.identifier, "",
                                        [nconds |-> Len(conditions), actions |-> actions],
                                        match))]
        /\ UNCHANGED <<rulesDb, ledger, emails, now, passNo, callPasses, markWrites, reloads, last, probe, mailbox>>

\* mark_as_unread dispatched to the wrong port method
PortMethodMixedUp(action_type) ==
    CASE action_type = "mark_as_read" -> "mark_as_read"
      [] action_type = "mark_as_unread" -> "mark_as_read"
      [] action_type = "move_message" -> "move_message"
      [] OTHER -> ""

\* the port method an action type calls, "" for none (lines 58-76)
PortMethod(action_type) ==
    CASE action_type = "mark_as_read" -> "mark_as_read"
      [] action_type = "mark_as_unread" -> "mark_as_unread"
      [] action_type = "move_message" -> "move_message"
      [] OTHER -> ""

\* a successful move leaves current_label alone
ApplyActionNoLabel(mail, action) ==
    CASE action.action_type = "mark_as_read" -> [mail EXCEPT !.is_read = TRUE]
      [] action.action_type = "mark_as_unread" -> [mail EXCEPT !.is_read = FALSE]
      [] OTHER -> mail

\* marking a message read or unread also puts it back in the inbox
ApplyActionResettingLabel(mail, action) ==
    CASE action.action_type = "mark_as_read" ->
             [is_read |-> TRUE, current_label |-> "INBOX"]
      [] action.action_type = "mark_as_unread" ->
             [is_read |-> FALSE, current_label |-> "INBOX"]
      [] action.action_type = "move_message" ->
             [mail EXCEPT !.current_label = action.action_value]
      [] OTHER -> mail

\* the message after a successful action (lines 60-61, 67-68, 75-76)
ApplyAction(mail, action) ==
    CASE action.action_type = "mark_as_read" -> [mail EXCEPT !.is_read = TRUE]
      [] action.action_type = "mark_as_unread" -> [mail EXCEPT !.is_read = FALSE]
      [] action.action_type = "move_message" ->
             [mail EXCEPT !.current_label = action.action_value]
      [] OTHER -> mail

\* the action loop not calling the port when the message object already has
\* the value the action would give it, and counting the action as done
ExecuteSkippingNoOps(e, ok) ==
    LET r == eng[e]
        rule == r.rules[r.i]
        action == r.actions[r.j]
        op == PortMethod(action.action_type)
        skip == op /= "" /\ ApplyAction(r.mail, action) = r.mail
        success == op /= "" /\ (ok \/ skip)
        mail == IF success THEN ApplyAction(r.mail, action) ELSE r.mail
        r1 == [r EXCEPT !.mail = mail, !.success = IF success THEN "true" ELSE "false"]
        key == <<r.email, rule.identifier>>
    IN  /\ r.pc = "act"
        /\ (op = "" \/ skip) => ok
        /\ eng' = [eng EXCEPT ![e] =
                      IF r.j < Len(r.actions) THEN [r1 EXCEPT !.j = r.j + 1]
                      ELSE AfterActions(r1)]
        /\ emails' = IF success
                     THEN [emails EXCEPT ![r.email] = ApplyAction(@, action)]
                     ELSE emails
        /\ trace' = [trace EXCEPT ![e] =
                        IF op = "" \/ skip THEN @
                        ELSE Append(@, Event("call", rule.identifier, op,
                                             <<r.email, action.action_value>>, ok))]
        /\ callPasses' = IF op = "" \/ skip THEN callPasses
                         ELSE [callPasses EXCEPT ![key] = @ \cup {r.pass}]
        /\ UNCHANGED <<rulesDb, ledger, now, passNo, markWrites, reloads, last, probe, mailbox>>

\* the action loop writing the field and committing whatever the port returns
ExecuteWritingOnFailure(e, ok) ==
    LET r == eng[e]
        rule == r.rules[r.i]
        action == r.actions[r.j]
        op == PortMethod(action.action_type)
        success == op /= "" /\ ok
        mail == IF op /= "" THEN ApplyAction(r.mail, action) ELSE r.mail
        r1 == [r EXCEPT !.mail = mail, !.success = IF success THEN "true" ELSE "false"]
        key == <<r.email, rule.identifier>>
    IN  /\ r.pc = "act"
        /\ op = "" => ok
        /\ eng' = [eng EXCEPT ![e] =
                      IF r.j < Len(r.actions) THEN [r1 EXCEPT !.j = r.j + 1]
                      ELSE AfterActions(r1)]
        /\ emails' = IF op /= ""
                     THEN [emails EXCEPT ![r.email] = ApplyAction(@, action)]
                     ELSE emails
        /\ trace' = [trace EXCEPT ![e] =
                        IF op = "" THEN @
                        ELSE Append(@, Event("call", rule.identifier, op,
                                             <<r.email, action.action_value>>, ok))]
        /\ callPasses' = IF op = "" THEN callPasses
                         ELSE [callPasses EXCEPT ![key] = @ \cup {r.pass}]
        /\ UNCHANGED <<rulesDb, ledger, now, passNo, markWrites, reloads, last, probe, mailbox>>

\* lines 54-82: one iteration of the action loop, and lines 84-89 after the
\* last one; ok is what the port returns.  db.commit() on line 80 writes the
\* column the action changed.
Execute(e, ok) ==
    LET r == eng[e]
        rule == r.rules[r.i]
        action == r.actions[r.j]
        op == PortMethod(action.action_type)
        success == op /= "" /\ ok
        mail == IF success THEN ApplyAction(r.mail, action) ELSE r.mail
        r1 == [r EXCEPT !.mail = mail, !.success = IF success THEN "true" ELSE "false"]
        key == <<r.email, rule.identifier>>
    IN  /\ r.pc = "act"
        /\ op = "" => ok
        /\ eng' = [eng EXCEPT ![e] =
                      IF r.j < Len(r.actions) THEN [r1 EXCEPT !.j = r.j + 1]
                      ELSE AfterActions(r1)]
        /\ emails' = IF success
                     THEN [emails EXCEPT ![r.email] = ApplyAction(@, action)]
                     ELSE emails
        /\ trace' = [trace EXCEPT ![e] =
                        IF op = "" THEN @
                        ELSE Append(@, Event("call", rule.identifier, op,
                                             <<r.email, action.action_value>>, ok))]
        /\ callPasses' = IF op = "" THEN callPasses
                         ELSE [callPasses EXCEPT ![key] = @ \cup {r.pass}]
        /\ UNCHANGED <<rulesDb, ledger, now, passNo, markWrites, reloads, last, probe, mailbox>>

\* _mark_as_processed, lines 203-206: look for an existing record
MarkQuery(e) ==
    LET r == eng[e]
        rule == r.rules[r.i]
    IN  /\ r.pc = "markq"
        /\ eng' = [eng EXCEPT ![e] =
                      [r EXCEPT !.pc = "markc",
                                !.found = FindProcessed(ledger, r.email, rule.identifier)]]
        /\ UNCHANGED <<rulesDb, ledger, emails, now, passNo, trace, callPasses, markWrites, reloads, last, probe, mailbox>>

\* _mark_as_processed, lines 208-218: refresh the record found, or insert and
\* commit; the insert of a pair that exists by now fails on the constraint
MarkCommit(e) ==
    LET r == eng[e]
        rule == r.rules[r.i]
        key == <<r.email, rule.identifier>>
        row == [gmail_id |-> r.email, rule_identifier |-> rule.identifier,
                processed_at |-> now]
        rejected == r.found = 0 /\ ~UniqueConstraintOk(ledger, r.email, rule.identifier)
    IN  /\ r.pc = "markc"
        /\ ledger' = IF rejected THEN ledger
                     ELSE IF r.found /= 0
                          THEN [ledger EXCEPT ![r.found].processed_at = now]
                     ELSE Append(ledger, row)
        /\ eng' = [eng EXCEPT ![e] =
                      IF rejected THEN [Raise(r, "IntegrityError") EXCEPT !.pc = "raised"]
                      ELSE NextRule(r)]
        /\ trace' = [trace EXCEPT ![e] =
                        Append(@, Event("mark", rule.identifier,
                                        IF r.found /= 0 THEN "update" ELSE "insert",
                                        "", ~rejected))]
        /\ markWrites' = IF rejected THEN markWrites
                         ELSE [markWrites EXCEPT ![key] = @ + 1]
        /\ UNCHANGED <<rulesDb, emails, now, passNo, callPasses, reloads, last, probe, mailbox>>

\* the wall clock advances
Tick ==
    /\ now < MaxNow
    /\ now' = now + 1
    /\ UNCHANGED <<rulesDb, ledger, emails, eng, passNo, trace, callPasses, markWrites, reloads, last, probe, mailbox>>

\* load_rules clearing processed_emails along with the rule tables
ReloadClearingLedger(cfg) ==
    /\ \A e \in Engines : Quiet(e)
    /\ reloads < MaxReloads
    /\ reloads' = reloads + 1
    /\ rulesDb' = LoadRules(cfg)
    /\ ledger' = <<>>
    /\ UNCHANGED <<emails, now, eng, passNo, trace, callPasses, markWrites, last, probe, mailbox>>

\* load_rules at the start of a run: the rule tables are cleared and recreated
Reload(cfg) ==
    /\ \A e \in Engines : Quiet(e)
    /\ reloads < MaxReloads
    /\ reloads' = reloads + 1
    /\ rulesDb' = LoadRules(cfg)
    /\ UNCHANGED <<ledger, emails, now, eng, passNo, trace, callPasses, markWrites, last, probe, mailbox>>

(***************************************************************************)
(* One engine instance.                                                    *)
(***************************************************************************)
Next ==
    \/ \E m \in Msgs : StartPass(1, m)
    \/ CheckLedger(1)
    \/ Evaluate(1)
    \/ \E ok \in BOOLEAN : Execute(1, ok)
    \/ MarkQuery(1)
    \/ MarkCommit(1)
    \/ Tick
    \/ \E cfg \in Configs : Reload(cfg)

Spec == Init /\ [][Next]_vars

(***************************************************************************)
(* Two engine instances (two processes) over the same database and mailbox.*)
(* The day does not change while their passes interleave.                  *)
(***************************************************************************)
\* the configuration files two concurrent runs are started with
ConcConfigs ==
    { <<RuleA("R1")>>, <<RuleA("R2")>>, <<RuleA("R1"), RuleB>>, <<RuleS(Move)>> }

InitConc ==
    /\ Init
    /\ rulesDb \in {LoadRules(c) : c \in ConcConfigs}

NextConc ==
    \/ \E e \in Engines, m \in Msgs : StartPass(e, m)
    \/ \E e \in Engines : CheckLedger(e)
    \/ \E e \in Engines : Evaluate(e)
    \/ \E e \in Engines, ok \in BOOLEAN : Execute(e, ok)
    \/ \E e \in Engines : MarkQuery(e)
    \/ \E e \in Engines : MarkCommit(e)
    \/ \E cfg \in ConcConfigs : Reload(cfg)

SpecConc == InitConc /\ [][NextConc]_vars

(***************************************************************************)
(* One engine instance, first run started with a configuration file that   *)
(* switches a rule off.                                                    *)
(***************************************************************************)
\* "active": false in the file; would match both messages
RuleOff == RuleCfg("R1", "any", FALSE, <<BodyLacksB>>, Read)

InactiveConfigs == { <<RuleOff>>, <<RuleA("R2"), RuleOff>> }

\* identifiers the file declares with "active": false
DeclaredInactive(cfg) == {cfg[k].identifier : k \in {q \in 1..Len(cfg) : ~cfg[q].active}}

InitInactive ==
    /\ rulesDb \in {LoadRules(c) : c \in InactiveConfigs}
    /\ ledger = <<>>
    /\ emails = [m \in Msgs |-> EmailDefaults]
    /\ now = 0
    /\ eng = [e \in Engines |-> Idle(0, NoneVal, <<>>, EmailDefaults, "unbound", NoneVal)]
    /\ passNo = 0
    /\ trace = [e \in Engines |-> <<>>]
    /\ callPasses = [p \in Msgs \X Ids |-> {}]
    /\ markWrites = [p \in Msgs \X Ids |-> 0]
    /\ reloads = 0
    /\ last = [e \in Engines |-> [pass |-> 0, email |-> NoneVal, rules |-> <<>>, trace |-> <<>>]]
    /\ probe = NoProbe
    /\ mailbox = InitialMailbox

SpecInactive == InitInactive /\ [][Next]_vars

(***************************************************************************)
(* One engine instance over a database whose ledger queries and commits    *)
(* can fail (connection lost, database locked).                            *)
(***************************************************************************)
FaultConfigs == { <<RuleA("R1"), RuleB>>, <<RuleS(Read)>>, <<RuleA("R2")>> }

\* the statement of _is_already_processed or _mark_as_processed that is about to run
LedgerStatement(pc) ==
    CASE pc = "check" -> "query"
      [] pc = "markq" -> "query"
      [] pc = "markc" -> "commit"

\* the failure caught and the loop carried on with the next rule
LedgerFaultSwallowed(e) ==
    LET r == eng[e]
        rule == r.rules[r.i]
    IN  /\ r.pc \in {"check", "markq", "markc"}
        /\ eng' = [eng EXCEPT ![e] = NextRule(r)]
        /\ trace' = [trace EXCEPT ![e] =
                        Append(@, Event("fault", rule.identifier, LedgerStatement(r.pc), "", FALSE))]
        /\ UNCHANGED <<rulesDb, ledger, emails, now, passNo, callPasses, markWrites, reloads, last, probe, mailbox>>

\* db.query(ProcessedEmail)... or db.commit() raises; neither helper nor
\* process_email has a handler, so the exception leaves process_email
LedgerFault(e) ==
    LET r == eng[e]
        rule == r.rules[r.i]
    IN  /\ r.pc \in {"check", "markq", "markc"}
        /\ eng' = [eng EXCEPT ![e] = [Raise(r, "OperationalError") EXCEPT !.pc = "raised"]]
        /\ trace' = [trace EXCEPT ![e] =
                        Append(@, Event("fault", rule.identifier, LedgerStatement(r.pc), "", FALSE))]
        /\ UNCHANGED <<rulesDb, ledger, emails, now, passNo, callPasses, markWrites, reloads, last, probe, mailbox>>

InitFault ==
    /\ Init
    /\ rulesDb \in {LoadRules(c) : c \in FaultConfigs}

NextFault ==
    \/ \E m \in Msgs : StartPass(1, m)
    \/ CheckLedger(1)
    \/ Evaluate(1)
    \/ \E ok \in BOOLEAN : Execute(1, ok)
    \/ MarkQuery(1)
    \/ MarkCommit(1)
    \/ LedgerFault(1)
    \/ Tick
    \/ \E cfg \in FaultConfigs : Reload(cfg)

SpecFault == InitFault /\ [][NextFault]_vars

(***************************************************************************)
(* The evaluators called directly, as the unit tests call them: one call   *)
(* on a fresh engine, its arguments and outcome kept in probe.             *)
(***************************************************************************)
\* longest string operand
MaxLen == 2
\* longest condition list
MaxConds == 2

ProbeChars == {"a", "A", "b"}

RECURSIVE StringsUpTo(_)
StringsUpTo(n) ==
    IF n = 0 THEN {<<>>}
    ELSE LET shorter == StringsUpTo(n - 1)
         IN  shorter \cup {Append(s, c) : s \in shorter, c \in ProbeChars}

ProbeStrings == StringsUpTo(MaxLen)

StringFields == {"from", "subject", "message"}
StringPredicates == {"contains", "does_not_contain", "equals", "does_not_equal"}
DatePredicates == {"less_than", "greater_than"}

\* `value` texts of received_date conditions: integers, signed, zero, padded,
\* empty and non-numeric
ProbeDateValues ==
    { <<"1">>, <<"2">>, <<"0">>, <<"0", "0">>, <<"0", "2">>, <<"-", "1">>, <<"-", "0">>,
      <<"+", "1">>, <<>>, <<"a">>, <<"1", "a">>, <<"-">> }

\* message ages in days, around the one- and two-day and one- and two-month marks
ProbeAges == {0, 1, 2, 3, 15, 29, 30, 31, 45, 59, 60, 61}

\* an Email object with one string column set
ProbeEmail(field, value) ==
    [gmail_id |-> "m1",
     from_address |-> IF field = "from" THEN value ELSE <<"a">>,
     subject |-> IF field = "subject" THEN value ELSE NoneVal,
     content |-> IF field = "message" THEN value ELSE NoneVal,
     received_date |-> [days |-> 0, aware |-> FALSE],
     is_read |-> FALSE, current_label |-> "INBOX"]

\* the largest number of days a timedelta holds
TimedeltaMax == 999999999

\* a value above it
HugeValue == <<"1", "0", "0", "0", "0", "0", "0", "0", "0", "0">>

\* timedelta(days=...) raises OverflowError, which `except (ValueError,
\* TypeError)` does not catch; the timedelta is built before the predicate is
\* looked at
DateOverflows(condition) ==
    LET parsed == ParseInt(condition.value)
    IN  /\ condition.field = "received_date"
        /\ parsed.ok
        /\ parsed.val > 0
        /\ parsed.val > (IF condition.unit = "months"
                         THEN TimedeltaMax \div DaysPerMonth ELSE TimedeltaMax)

\* _evaluate_condition raises: AttributeError when email.from_address, handed
\* over without `or ''`, is None and one of the four string predicates calls
\* value.lower(); OverflowError from the timedelta of a date condition
ConditionRaises(condition, email) ==
    \/ /\ condition.field = "from"
       /\ email.from_address = NoneVal
       /\ condition.predicate \in StringPredicates
    \/ DateOverflows(condition)

\* one call of _evaluate_condition: what it returns, or that it raised
TryEvaluateCondition(condition, email, clock) ==
    IF ConditionRaises(condition, email)
    THEN [raised |-> TRUE, result |-> FALSE]
    ELSE [raised |-> FALSE, result |-> EvaluateCondition(condition, email, clock)]

\* the `results` list _evaluate_rule builds, one entry per condition
ConditionResults(conditions, email, clock) ==
    [k \in 1..Len(conditions) |-> EvaluateCondition(conditions[k], email, clock)]

ProbeConditions == {FromHasA, SubjectIsB, OlderThanADay, BodyLacksB}

RECURSIVE ConditionListsUpTo(_)
ConditionListsUpTo(n) ==
    IF n = 0 THEN {<<>>}
    ELSE LET shorter == ConditionListsUpTo(n - 1)
         IN  shorter \cup {Append(cs, c) : cs \in shorter, c \in ProbeConditions}

\* the database, the clock and the engine
dbVars == <<rulesDb, ledger, emails, now, eng, passNo, trace, callPasses,
            markWrites, reloads, last>>

engineVars == <<rulesDb, ledger, emails, now, eng, passNo, trace, callPasses,
                markWrites, reloads, last, mailbox>>

\* engine._evaluate_rule(rule, conditions, email)
CallEvaluateRule ==
    /\ probe.kind = "none"
    /\ \E predicate \in {"all", "any"}, conditions \in ConditionListsUpTo(MaxConds),
          m \in Msgs, clock \in 0..MaxNow :
         LET rule  == RuleCfg("R1", predicate, TRUE, conditions, <<>>)
             email == EmailObject(m, EmailDefaults)
         IN  probe' = [kind |-> "rule", rule |-> rule, conditions |-> conditions,
                       email |-> email, clock |-> clock,
                       results |-> ConditionResults(conditions, email, clock),
                       result |-> EvaluateRule(rule, conditions, email, clock)]
    /\ UNCHANGED engineVars

\* engine._evaluate_condition(condition, email) on a string field; the
\* column is None when missing
CallEvaluateCondition ==
    /\ probe.kind = "none"
    /\ \E field \in StringFields, predicate \in StringPredicates \cup DatePredicates,
          value \in ProbeStrings, text \in ProbeStrings, missing \in BOOLEAN :
         LET condition == Cond(field, predicate, value, NoneVal)
             actual    == IF missing THEN NoneVal ELSE text
             email     == ProbeEmail(field, actual)
             outcome   == TryEvaluateCondition(condition, email, 0)
         IN  /\ missing => text = <<>>
             /\ probe' = [kind |-> "string", condition |-> condition, actual |-> actual,
                          email |-> email, raised |-> outcome.raised,
                          result |-> outcome.result]
    /\ UNCHANGED engineVars

\* engine._evaluate_condition(condition, email) on received_date
CallEvaluateDateCondition ==
    /\ probe.kind = "none"
    /\ \E predicate \in DatePredicates \cup {"equals"}, value \in ProbeDateValues,
          unit \in {"days", "months"}, age \in ProbeAges, aware \in BOOLEAN,
          clock \in 0..MaxNow :
         LET condition == Cond("received_date", predicate, value, unit)
             email     == [ProbeEmail("subject", NoneVal) EXCEPT
                               !.received_date = [days |-> clock - age, aware |-> aware]]
             outcome   == TryEvaluateCondition(condition, email, clock)
         IN  probe' = [kind |-> "date", condition |-> condition, age |-> age,
                       email |-> email, raised |-> outcome.raised,
                       result |-> outcome.result]
    /\ UNCHANGED engineVars

\* the predicate is not one of the field's, or the field is not one the
\* engine knows
Misapplied(field, predicate) ==
    \/ field \notin StringFields \cup {"received_date"}
    \/ field \in StringFields /\ predicate \notin StringPredicates
    \/ field = "received_date" /\ predicate \notin DatePredicates

\* engine._evaluate_condition(condition, email) on a condition outside the
\* vocabulary: an unknown field, an unknown predicate, or a predicate of the
\* other kind of field
CallEvaluateMisapplied ==
    /\ probe.kind = "none"
    /\ \E field \in StringFields \cup {"received_date", "to"},
          predicate \in StringPredicates \cup DatePredicates \cup {"matches"},
          value \in {<<"a">>, <<"1">>, <<"-", "1">>, HugeValue},
          unit \in {"days", "months", NoneVal},
          missing \in BOOLEAN, aware \in BOOLEAN, age \in {0, 2} :
         LET condition == Cond(field, predicate, value, unit)
             actual    == IF missing THEN NoneVal ELSE <<"a">>
             email     == [ProbeEmail(field, actual) EXCEPT
                               !.from_address = actual,
                               !.received_date = [days |-> 0 - age, aware |-> aware]]
             outcome   == TryEvaluateCondition(condition, email, 0)
         IN  /\ Misapplied(field, predicate)
             /\ probe' = [kind |-> "misapplied", condition |-> condition,
                          email |-> email, raised |-> outcome.raised,
                          result |-> outcome.result]
    /\ UNCHANGED engineVars

InitEval ==
    /\ Init
    /\ rulesDb = LoadRules(<<>>)

NextEval ==
    \/ CallEvaluateRule
    \/ CallEvaluateCondition
    \/ CallEvaluateDateCondition
    \/ CallEvaluateMisapplied

SpecEval == InitEval /\ [][NextEval]_vars

(***************************************************************************)
(* The ledger helpers called directly on one session, the clock advancing  *)
(* between calls; probe keeps the last call, its arguments and its result. *)
(***************************************************************************)
\* _mark_as_processed calls over the whole behaviour
MaxCalls == 3

\* _mark_as_processed changing the first row of the message, whatever its identifier
MarkAsProcessedAnyRule(led, gmail_id, rule_identifier, clock) ==
    IF RecordsFor(led, gmail_id) /= <<>>
    THEN LET found == CHOOSE k \in 1..Len(led) :
                          /\ led[k].gmail_id = gmail_id
                          /\ \A q \in 1..(k - 1) : led[q].gmail_id /= gmail_id
         IN  [led EXCEPT ![found].processed_at = clock]
    ELSE Append(led, [gmail_id |-> gmail_id, rule_identifier |-> rule_identifier,
                      processed_at |-> clock])

\* RulesEngine._mark_as_processed run by one caller from query to commit
MarkAsProcessed(led, gmail_id, rule_identifier, clock) ==
    LET found == FindProcessed(led, gmail_id, rule_identifier)
    IN  IF found /= 0
        THEN [led EXCEPT ![found].processed_at = clock]
        ELSE Append(led, [gmail_id |-> gmail_id, rule_identifier |-> rule_identifier,
                          processed_at |-> clock])

\* _mark_as_processed calls made so far
CallsMade == IF probe.kind = "none" THEN 0 ELSE probe.n

\* engine._is_already_processed(gmail_id, rule_identifier)
CallIsAlreadyProcessed ==
    /\ \E m \in Msgs, rid \in Ids :
         probe' = [kind |-> "check", n |-> CallsMade, gmail_id |-> m,
                   rule_identifier |-> rid, before |-> ledger,
                   result |-> IsAlreadyProcessed(ledger, m, rid)]
    /\ UNCHANGED <<rulesDb, ledger, emails, now, eng, passNo, trace, callPasses,
                   markWrites, reloads, last, mailbox>>

\* engine._mark_as_processed(gmail_id, rule_identifier)
CallMarkAsProcessed ==
    /\ CallsMade < MaxCalls
    /\ \E m \in Msgs, rid \in Ids :
         /\ ledger' = MarkAsProcessed(ledger, m, rid, now)
         /\ probe' = [kind |-> "mark", n |-> CallsMade + 1, gmail_id |-> m,
                      rule_identifier |-> rid, before |-> ledger, clock |-> now,
                      result |-> <<FALSE, "">>]
    /\ UNCHANGED <<rulesDb, emails, now, eng, passNo, trace, callPasses,
                   markWrites, reloads, last, mailbox>>

InitLedger ==
    /\ Init
    /\ rulesDb = LoadRules(<<>>)

NextLedger ==
    \/ CallIsAlreadyProcessed
    \/ CallMarkAsProcessed
    \/ Tick

SpecLedger == InitLedger /\ [][NextLedger]_vars

(***************************************************************************)
(* GmailClient, the mutation port, over a Gmail account.  Each request to  *)
(* the service either answers or fails; a call is given the request of it  *)
(* that fails, if any.                                                     *)
(***************************************************************************)
\* message ids a caller can pass: the account's messages and an unknown one
PortIds == Msgs \cup {"mx"}
\* destinations a caller can pass: a custom label of the account, a label the
\* account does not have, a built-in label, and no destination
Destinations == {"Archive", "Missing", "STARRED", NoneVal}
\* the request of a call that fails: the first read of the message, the first
\* listing of the labels, the modify request, the read after the modify, the
\* listing after it
Faults == {"none", "get", "labels", "modify", "reread", "relabel"}

\* an outcome of a method body: a return value or an exception, the account
\* afterwards, and the number of modify requests issued
Returned(ret, box, n) == [exc |-> "none", ret |-> ret, box |-> box, modifies |-> n]
Thrown(exc, box, n) == [exc |-> exc, ret |-> FALSE, box |-> box, modifies |-> n]

\* GmailClient.get_message: the message, or None on any error
GetMessage(box, msg_id, fails) ==
    IF fails \/ msg_id \notin DOMAIN box
    THEN [found |-> FALSE, labelIds |-> {}]
    ELSE [found |-> TRUE, labelIds |-> box[msg_id]]

\* GmailClient.get_label_id: the id of the label of that name, or None
GetLabelId(label_name, fails) ==
    IF fails THEN NoneVal
    ELSE IF label_name = "Archive" THEN "L1"
    ELSE NoneVal

\* users().messages().modify: labels removed, then labels added
Modify(box, msg_id, addLabelIds, removeLabelIds) ==
    [box EXCEPT ![msg_id] = (@ \ removeLabelIds) \cup addLabelIds]

\* the except clauses of a port method with only `except HttpError`
CatchHttpErrorOnly(outcome) ==
    IF outcome.exc = "HttpError" THEN Returned(FALSE, outcome.box, outcome.modifies)
    ELSE outcome

\* `except HttpError ... except Exception`: whatever the body raises, the
\* method returns False
Catch(outcome) ==
    IF outcome.exc /= "none" THEN Returned(FALSE, outcome.box, outcome.modifies)
    ELSE outcome

\* mark_as_read sending the modify request whatever the labels are
MarkAsReadAlwaysModify(box, msg_id, fault) ==
    LET message == GetMessage(box, msg_id, fault = "get")
    IN  Catch(
          IF ~message.found THEN Returned(FALSE, box, 0)
          ELSE IF fault = "modify" THEN Thrown("HttpError", box, 1)
          ELSE LET box1 == Modify(box, msg_id, {}, {"UNREAD"})
                   reread == GetMessage(box1, msg_id, fault = "reread")
               IN  IF ~reread.found THEN Thrown("AttributeError", box1, 1)
                   ELSE Returned("UNREAD" \notin reread.labelIds, box1, 1))

\* GmailClient.mark_as_read
MarkAsRead(box, msg_id, fault) ==
    LET message == GetMessage(box, msg_id, fault = "get")
    IN  Catch(
          IF ~message.found THEN Returned(FALSE, box, 0)
          ELSE IF "UNREAD" \notin message.labelIds THEN Returned(TRUE, box, 0)
          ELSE IF fault = "modify" THEN Thrown("HttpError", box, 1)
          ELSE LET box1 == Modify(box, msg_id, {}, {"UNREAD"})
                   reread == GetMessage(box1, msg_id, fault = "reread")
               IN  IF ~reread.found THEN Thrown("AttributeError", box1, 1)
                   ELSE Returned("UNREAD" \notin reread.labelIds, box1, 1))

\* GmailClient.mark_as_unread; the modify request and the read after it have
\* their own failure returns
MarkAsUnread(box, msg_id, fault) ==
    LET message == GetMessage(box, msg_id, fault = "get")
    IN  Catch(
          IF ~message.found THEN Returned(FALSE, box, 0)
          ELSE IF "UNREAD" \in message.labelIds THEN Returned(TRUE, box, 0)
          ELSE IF fault = "modify" THEN Returned(FALSE, box, 1)
          ELSE LET box1 == Modify(box, msg_id, {"UNREAD"}, {})
                   reread == GetMessage(box1, msg_id, fault = "reread")
               IN  IF ~reread.found THEN Returned(FALSE, box1, 1)
                   ELSE Returned("UNREAD" \in reread.labelIds, box1, 1))

\* destination.startswith(('STARRED', 'IMPORTANT', 'UNREAD'))
BuiltIn(destination) == destination \in {"STARRED", "IMPORTANT", "UNREAD"}

\* GmailClient.move_message
MoveMessage(box, msg_id, destination, fault) ==
    LET message == GetMessage(box, msg_id, fault = "get")
        label_id == GetLabelId(destination, fault = "labels")
        addLabelIds == IF BuiltIn(destination) THEN {destination} ELSE {label_id}
        removeLabelIds == IF BuiltIn(destination) THEN {} ELSE {"INBOX", "SPAM", "TRASH"}
    IN  Catch(
          IF ~message.found THEN Returned(FALSE, box, 0)
          ELSE IF destination = NoneVal THEN Thrown("AttributeError", box, 0)
          ELSE IF ~BuiltIn(destination) /\ label_id = NoneVal THEN Returned(FALSE, box, 0)
          ELSE IF fault = "modify" THEN Thrown("HttpError", box, 1)
          ELSE LET box1 == Modify(box, msg_id, addLabelIds, removeLabelIds)
                   reread == GetMessage(box1, msg_id, fault = "reread")
               IN  IF ~reread.found THEN Thrown("AttributeError", box1, 1)
                   ELSE IF BuiltIn(destination)
                        THEN Returned(destination \in reread.labelIds, box1, 1)
                        ELSE Returned(GetLabelId(destination, fault = "relabel")
                                          \in reread.labelIds, box1, 1))

(***************************************************************************)
(* The port called directly, one call after another on the same account;   *)
(* probe keeps the last call, the account before it and its outcome, and   *)
(* whether the call before it was the same call and returned True.         *)
(***************************************************************************)
PortProbe(op, msg_id, destination, fault, outcome) ==
    [kind |-> "port", op |-> op, msg_id |-> msg_id, destination |-> destination,
     fault |-> fault, before |-> mailbox, exc |-> outcome.exc, ret |-> outcome.ret,
     modifies |-> outcome.modifies,
     repeats |-> /\ probe.kind = "port"
                 /\ probe.op = op
                 /\ probe.msg_id = msg_id
                 /\ probe.destination = destination
                 /\ probe.exc = "none"
                 /\ probe.ret]

\* gmail_client.mark_as_read(msg_id)
CallMarkAsRead ==
    /\ \E msg_id \in PortIds, fault \in Faults \ {"labels", "relabel"} :
         LET outcome == MarkAsRead(mailbox, msg_id, fault)
         IN  /\ mailbox' = outcome.box
             /\ probe' = PortProbe("mark_as_read", msg_id, NoneVal, fault, outcome)
    /\ UNCHANGED dbVars

\* gmail_client.mark_as_unread(msg_id)
CallMarkAsUnread ==
    /\ \E msg_id \in PortIds, fault \in Faults \ {"labels", "relabel"} :
         LET outcome == MarkAsUnread(mailbox, msg_id, fault)
         IN  /\ mailbox' = outcome.box
             /\ probe' = PortProbe("mark_as_unread", msg_id, NoneVal, fault, outcome)
    /\ UNCHANGED dbVars

\* gmail_client.move_message(msg_id, destination)
CallMoveMessage ==
    /\ \E msg_id \in PortIds, destination \in Destinations, fault \in Faults :
         LET outcome == MoveMessage(mailbox, msg_id, destination, fault)
         IN  /\ mailbox' = outcome.box
             /\ probe' = PortProbe("move_message", msg_id, destination, fault, outcome)
    /\ UNCHANGED dbVars

InitPort ==
    /\ Init
    /\ rulesDb = LoadRules(<<>>)

NextPort ==
    \/ CallMarkAsRead
    \/ CallMarkAsUnread
    \/ CallMoveMessage

SpecPort == InitPort /\ [][NextPort]_vars

(***************************************************************************)
(* load_rules, one step per commit or flush.  rulesDb is the committed     *)
(* rule store; probe keeps the call under way: the configuration read, the *)
(* store before the call, the rows flushed and not yet committed, and how  *)
(* the call ended.                                                         *)
(***************************************************************************)
\* a rule whose predicate RulesConfig refuses
RuleBad == RuleCfg("R1", "sometimes", TRUE, <<FromHasA>>, Read)

\* the configuration files read: valid ones, one that fails validation, and
\* ones with an identifier given twice, at the second and at the third rule
LoadConfigs ==
    { <<>>,
      <<RuleA("R1")>>,
      <<RuleA("R1"), RuleB>>,
      <<RuleBad>>,
      <<RuleA("R2"), RuleBad>>,
      <<RuleA("R1"), RuleS(Read)>>,
      <<RuleA("R2"), RuleB>>,
      <<RuleE, RuleA("R1"), RuleS(Unread)>> }

\* RulesConfig(**rules_data): the Literal types of the schema
ValidConfig(cfg) ==
    \A k \in 1..Len(cfg) :
        /\ cfg[k].predicate \in {"all", "any"}
        /\ \A q \in 1..Len(cfg[k].conditions) :
               /\ cfg[k].conditions[q].field \in StringFields \cup {"received_date"}
               /\ cfg[k].conditions[q].predicate \in StringPredicates \cup DatePredicates
        /\ \A q \in 1..Len(cfg[k].actions) :
               cfg[k].actions[q].type \in {"mark_as_read", "mark_as_unread", "move_message"}

\* the flush inserting a rule under any identifier
IdentifierNeverTaken(rows, identifier) == FALSE

\* Rule.identifier unique=True: a row of the table has the identifier
IdentifierTaken(rows, identifier) ==
    \E k \in 1..Len(rows) : rows[k].identifier = identifier

\* the call under way, or the last one
Loading(pc, cfg, before, k, err) ==
    [kind |-> "load", pc |-> pc, cfg |-> cfg, before |-> before, k |-> k, err |-> err]
\* the rows the session has flushed: those of the first k rules of the file
Pending == IF probe.kind = "load" /\ probe.pc = "insert"
           THEN LoadRules(SubSeq(probe.cfg, 1, probe.k))
           ELSE <<>>
LoadIdle == probe.kind = "none" \/ (probe.kind = "load" /\ probe.pc \in {"done", "raised"})

\* lines 33-38: read and validate the file; a failure raises before the
\* database is touched
LoadRead ==
    /\ LoadIdle
    /\ \E cfg \in LoadConfigs :
         probe' = IF ValidConfig(cfg)
                  THEN Loading("clear", cfg, rulesDb, 0, NoneVal)
                  ELSE Loading("raised", cfg, rulesDb, 0, "ValidationError")
    /\ UNCHANGED <<rulesDb, mailbox>>
    /\ UNCHANGED <<ledger, emails, now, eng, passNo, trace, callPasses, markWrites, reloads, last>>

\* lines 47-51: delete every rule, condition and action, and commit
LoadClear ==
    /\ probe.kind = "load" /\ probe.pc = "clear"
    /\ rulesDb' = <<>>
    /\ probe' = [probe EXCEPT !.pc = "insert"]
    /\ UNCHANGED <<ledger, emails, now, eng, passNo, trace, callPasses, markWrites,
                   reloads, last, mailbox>>

\* lines 54-82: add the next rule and flush; the flush of an identifier the
\* table has raises IntegrityError, which leaves load_rules (87-89), and the
\* flushed rows are never committed
LoadInsert ==
    /\ probe.kind = "load" /\ probe.pc = "insert"
    /\ probe.k < Len(probe.cfg)
    /\ probe' = IF IdentifierTaken(Pending, probe.cfg[probe.k + 1].identifier)
                THEN [probe EXCEPT !.pc = "raised", !.err = "IntegrityError"]
                ELSE [probe EXCEPT !.k = probe.k + 1]
    /\ UNCHANGED <<rulesDb, ledger, emails, now, eng, passNo, trace, callPasses,
                   markWrites, reloads, last, mailbox>>

\* line 84: commit the rows of all the rules
LoadCommit ==
    /\ probe.kind = "load" /\ probe.pc = "insert"
    /\ probe.k = Len(probe.cfg)
    /\ rulesDb' = Pending
    /\ probe' = [probe EXCEPT !.pc = "done"]
    /\ UNCHANGED <<ledger, emails, now, eng, passNo, trace, callPasses, markWrites,
                   reloads, last, mailbox>>

NextLoad ==
    \/ LoadRead
    \/ LoadClear
    \/ LoadInsert
    \/ LoadCommit

SpecLoad == Init /\ [][NextLoad]_vars

(***************************************************************************)
(* GmailClient.list_all_messages over an account whose messages are        *)
(* numbered in listing order.  probe keeps the call: its limit, the        *)
(* messages collected, the page token and whether the loop has ended.      *)
(***************************************************************************)
\* messages in the account, at most
MaxListed == 4
\* largest max_total passed
MaxTotal == 5
\* messages the service puts in one page, at most
PageCap == 2

\* the truth value of max_total (lines 56 and 71): None and 0 are both false
HasLimit(limited, max_total) == limited /\ max_total /= 0

\* the messages of the account, in listing order
Listing(total) == [k \in 1..total |-> k]

\* the call so far; token is the number of messages the pages fetched cover,
\* more is whether the last response had a nextPageToken
Listed(pc, limited, max_total, total, messages, token, more, failed) ==
    [kind |-> "list", pc |-> pc, limited |-> limited, max_total |-> max_total,
     total |-> total, messages |-> messages, token |-> token, more |-> more,
     failed |-> failed]

\* gmail_client.list_all_messages(max_total=N), or without a limit: lines 52-53
CallListAllMessages ==
    /\ probe.kind = "none"
    /\ \E limited \in BOOLEAN, max_total \in 0..MaxTotal, total \in 0..MaxListed :
         /\ ~limited => max_total = 0
         /\ probe' = Listed("loop", limited, max_total, total, <<>>, 0, FALSE, FALSE)
    /\ UNCHANGED engineVars

\* lines 55-72: one turn of the loop.  A page has at most max_results messages,
\* at most PageCap, and at least one while messages are left; a request that
\* fails gives an empty page without a token (lines 46-48)
ListPage ==
    /\ probe.kind = "list" /\ probe.pc = "loop"
    /\ LET limit     == HasLimit(probe.limited, probe.max_total)
           remaining == probe.max_total - Len(probe.messages)
           left      == probe.total - probe.token
           most      == IF limit /\ remaining < PageCap THEN remaining ELSE PageCap
       IN  IF limit /\ remaining <= 0
           THEN probe' = [probe EXCEPT !.pc = "done"]
           ELSE \E fails \in BOOLEAN, size \in 0..most :
                  /\ size <= left
                  /\ (size = 0) = (left = 0)
                  /\ LET page     == IF fails THEN <<>>
                                     ELSE SubSeq(Listing(probe.total), probe.token + 1,
                                                 probe.token + size)
                         more     == ~fails /\ probe.token + size < probe.total
                         messages == probe.messages \o page
                     IN  probe' = [probe EXCEPT
                                      !.messages = messages,
                                      !.token = IF fails THEN @ ELSE @ + size,
                                      !.more = more,
                                      !.failed = @ \/ fails,
                                      !.pc = IF ~more \/ (limit /\ Len(messages) >= probe.max_total)
                                             THEN "done" ELSE "loop"]
    /\ UNCHANGED engineVars

InitList ==
    /\ Init
    /\ rulesDb = LoadRules(<<>>)

NextList ==
    \/ CallListAllMessages
    \/ ListPage

SpecList == InitList /\ [][NextList]_vars

TypeOK ==
    /\ now \in 0..MaxNow
    /\ passNo \in 0..MaxPasses
    /\ reloads \in 0..MaxReloads
    /\ mailbox \in [Msgs -> SUBSET {"INBOX", "UNREAD", "STARRED", "L1"}]

(***************************************************************************)
(* Reading a trace.                                                        *)
(***************************************************************************)
HasEvent(t, k, rid) == \E n \in 1..Len(t) : t[n].k = k /\ t[n].rid = rid
EventOf(t, k, rid) == t[CHOOSE n \in 1..Len(t) : t[n].k = k /\ t[n].rid = rid]
CallsOf(t, rid) == SelectSeq(t, LAMBDA ev : ev.k = "call" /\ ev.rid = rid)
AllCallsOk(t) == \A n \in 1..Len(t) : t[n].k = "call" => t[n].ok
\* completed ledger writes for the identifier in this trace
MarksIn(t, rid) == Len(SelectSeq(t, LAMBDA ev : ev.k = "mark" /\ ev.rid = rid /\ ev.ok))
\* the rule was evaluated in this trace and matched
Matched(t, rid) == HasEvent(t, "eval", rid) /\ EventOf(t, "eval", rid).ok
\* the ledger check of the rule in this trace found the pair recorded
Skipped(t, rid) == HasEvent(t, "check", rid) /\ EventOf(t, "check", rid).ok
ActionsIn(t, rid) == EventOf(t, "eval", rid).arg.actions
IdsOf(rules) == {rules[k].identifier : k \in 1..Len(rules)}
RecordCount(m, rid) ==
    Cardinality({k \in 1..Len(ledger) :
                    ledger[k].gmail_id = m /\ ledger[k].rule_identifier = rid})
\* the identifier of the rule the engine is handling
CurrentRule(e) == IF eng[e].i \in 1..Len(eng[e].rules)
                  THEN eng[e].rules[eng[e].i].identifier ELSE NoneVal
\* _mark_as_processed has been entered for the rule in the engine's pass
MarkCalled(e, rid) ==
    \/ HasEvent(trace[e], "mark", rid)
    \/ eng[e].pc \in {"markq", "markc"} /\ CurrentRule(e) = rid
\* the action loop of a matched rule with at least one action has finished
LoopDone(t, rid) ==
    /\ Matched(t, rid)
    /\ Len(ActionsIn(t, rid)) >= 1
    /\ Len(CallsOf(t, rid)) = Len(ActionsIn(t, rid))
\* this step issues a port call for the rule on the message
PortCallStep(m, rid) ==
    \E e \in Engines :
        /\ eng[e].email = m
        /\ Len(trace'[e]) = Len(trace[e]) + 1
        /\ trace'[e][Len(trace'[e])].k = "call"
        /\ trace'[e][Len(trace'[e])].rid = rid

(***************************************************************************)
(* C1.  Original statement: the port calls for a rule identifier on a      *)
(* message are issued in at most one pass, whatever the port returns.      *)
(***************************************************************************)
C1_CallsInAtMostOnePass ==
    \A p \in Msgs \X Ids : Cardinality(callPasses[p]) <= 1

\* C1, amended: once the ledger holds a record for (message, identifier), no
\* step of any later pass issues a port call for that identifier on that
\* message.
C1_NoCallOnceRecorded ==
    [][\A m \in Msgs, rid \in Ids :
          RecordCount(m, rid) > 0 => ~PortCallStep(m, rid)]_vars

\* a later pass meets the record of an earlier dispatch and skips the rule
C1_SkippedAfterRecord ==
    \E m \in Msgs, rid \in Ids :
        /\ RecordCount(m, rid) = 1
        /\ callPasses[<<m, rid>>] /= {}
        /\ eng[1].email = m
        /\ \A q \in callPasses[<<m, rid>>] : q < eng[1].pass
        /\ Skipped(trace[1], rid)

(***************************************************************************)
(* C2.  Two passes of one engine over the same message, the rule matched   *)
(* in the first, its identifier in both rule lists, every port call        *)
(* succeeding: exactly one ledger write for the pair, and the second pass  *)
(* skips the rule at the ledger check without evaluating or dispatching.   *)
(***************************************************************************)
C2_IdempotentReprocessing ==
    \A m \in Msgs, rid \in Ids :
        ( /\ Quiet(1)
          /\ last[1].pass >= 1
          /\ last[1].email = m /\ eng[1].email = m
          /\ rid \in IdsOf(last[1].rules) /\ rid \in IdsOf(eng[1].rules)
          /\ Matched(last[1].trace, rid)
          /\ AllCallsOk(last[1].trace) /\ AllCallsOk(trace[1]) )
        => /\ MarksIn(last[1].trace, rid) + MarksIn(trace[1], rid) = 1
           /\ Skipped(trace[1], rid)
           /\ ~HasEvent(trace[1], "eval", rid)
           /\ ~HasEvent(trace[1], "call", rid)

(***************************************************************************)
(* C3.  The ledger holds at most one record per (message, identifier),     *)
(* under every interleaving of two engines' passes and of rule reloads.    *)
(***************************************************************************)
C3_LedgerUnique ==
    \A m \in Msgs, rid \in Ids : RecordCount(m, rid) <= 1

\* a second insert of a recorded pair was attempted and refused
C3_InsertRefused ==
    \E e \in Engines :
        /\ eng[e].pc = "raised"
        /\ eng[e].err = "IntegrityError"
        /\ \E rid \in Ids : RecordCount(eng[e].email, rid) = 1

(***************************************************************************)
(* C4.  Two engines in overlapping passes over one message never both find *)
(* the pair unrecorded and both dispatch the rule's actions.               *)
(***************************************************************************)
C4_NoDoubleDispatch ==
    \A m \in Msgs, rid \in Ids :
        ~ \A e \in Engines :
            /\ ~Quiet(e)
            /\ eng[e].email = m
            /\ HasEvent(trace[e], "check", rid) /\ ~Skipped(trace[e], rid)
            /\ HasEvent(trace[e], "call", rid)

(***************************************************************************)
(* C5.  Two concurrent _mark_as_processed calls for an unrecorded pair:    *)
(* never are both about to insert, and neither call fails.                 *)
(***************************************************************************)
C5_AtomicUpsert ==
    /\ \A e \in Engines : eng[e].err /= "IntegrityError"
    /\ ~ /\ \A e \in Engines : eng[e].pc = "markc" /\ eng[e].found = 0
         /\ eng[1].email = eng[2].email
         /\ CurrentRule(1) = CurrentRule(2)

C7_MarkedOnlyIfAllSucceeded ==
    \A rid \in Ids :
        MarksIn(trace[1], rid) > 0 =>
            \A k \in 1..Len(CallsOf(trace[1], rid)) : CallsOf(trace[1], rid)[k].ok

ExpectedCall(m, action) ==
    CASE action.action_type = "mark_as_read" -> [op |-> "mark_as_read", arg |-> <<m, NoneVal>>]
      [] action.action_type = "mark_as_unread" -> [op |-> "mark_as_unread", arg |-> <<m, NoneVal>>]
      [] action.action_type = "move_message" ->
             [op |-> "move_message", arg |-> <<m, action.action_value>>]

IsExpectedCall(ev, m, action) ==
    ev.op = ExpectedCall(m, action).op /\ ev.arg = ExpectedCall(m, action).arg

\* a finished pass over a single unprocessed rule with a single action
SingleRulePass(rid) ==
    /\ Quiet(1)
    /\ eng[1].pass >= 1
    /\ IdsOf(eng[1].rules) = {rid} /\ Len(eng[1].rules) = 1
    /\ HasEvent(trace[1], "check", rid) /\ ~Skipped(trace[1], rid)
    /\ HasEvent(trace[1], "eval", rid)
    /\ Len(ActionsIn(trace[1], rid)) = 1

C10_ActionDispatch ==
    \A rid \in Ids :
        Matched(trace[1], rid) =>
            LET t == trace[1]
                m == eng[1].email
                acts == ActionsIn(t, rid)
                calls == CallsOf(t, rid)
                ev == t[Len(t)]
            IN  /\ Len(calls) <= Len(acts)
                /\ \A k \in 1..Len(calls) : IsExpectedCall(calls[k], m, acts[k])
                /\ ~(eng[1].pc = "act" /\ CurrentRule(1) = rid) => Len(calls) = Len(acts)
                /\ (ev.k = "call" /\ ev.rid = rid /\ ev.ok) =>
                      CASE ev.op = "mark_as_read" -> emails[m].is_read
                        [] ev.op = "mark_as_unread" -> ~emails[m].is_read
                        [] ev.op = "move_message" -> emails[m].current_label = ev.arg[2]
                /\ (LoopDone(t, rid) /\ \A k \in 1..Len(calls) : calls[k].ok) =>
                      /\ MarkCalled(1, rid)
                      /\ HasEvent(t, "mark", rid) => RecordCount(m, rid) = 1

\* both actions of a rule were dispatched and succeeded, and the pair is recorded
C10_ReadMovedRecorded ==
    \E rid \in Ids :
        /\ LoopDone(trace[1], rid)
        /\ Len(CallsOf(trace[1], rid)) = 2
        /\ \A k \in 1..2 : CallsOf(trace[1], rid)[k].ok
        /\ HasEvent(trace[1], "mark", rid)
        /\ RecordCount(eng[1].email, rid) = 1
        /\ emails[eng[1].email] = [is_read |-> TRUE, current_label |-> "Archive"]

(***************************************************************************)
(* C11 .. C20                                                              *)
(***************************************************************************)
\* the conditions of the probed list that hold for the probed message
Hits == {k \in 1..Len(probe.conditions) :
            EvaluateCondition(probe.conditions[k], probe.email, probe.clock)}

\* C11: for a non-empty condition list, 'all' matches exactly when every
\* condition holds for the message and 'any' exactly when at least one does;
\* the results list has one entry per condition, whatever the earlier entries
C11_PredicateSemantics ==
    (probe.kind = "rule" /\ probe.conditions /= <<>>) =>
        /\ Len(probe.results) = Len(probe.conditions)
        /\ \A k \in 1..Len(probe.conditions) : probe.results[k] = (k \in Hits)
        /\ probe.rule.predicate = "all" =>
               (probe.result <=> Cardinality(Hits) = Len(probe.conditions))
        /\ probe.rule.predicate = "any" => (probe.result <=> Hits /= {})

\* 'all' over a false condition followed by a true one: both evaluated, no match
C11_AllWithOneFalse ==
    /\ probe.kind = "rule"
    /\ probe.rule.predicate = "all"
    /\ probe.results = <<FALSE, TRUE>>
    /\ ~probe.result

(***************************************************************************)
(* C12.  A message recorded under one identifier and handled by a rule     *)
(* with another identifier.                                                *)
(***************************************************************************)
\* records the engine's pass has inserted for the identifier
InsertedIn(t, rid) ==
    Len(SelectSeq(t, LAMBDA ev : ev.k = "mark" /\ ev.rid = rid /\ ev.op = "insert" /\ ev.ok))
\* records of the pair that were there when the pass started
RecordsBefore(m, rid) == RecordCount(m, rid) - InsertedIn(trace[1], rid)
\* the pass of engine 1 is over; its rules included rid, for which the message
\* had no record when the pass started but had one under another identifier
RetriggerCase(rid) ==
    /\ Quiet(1)
    /\ eng[1].pass > 0
    /\ rid \in IdsOf(eng[1].rules)
    /\ RecordsBefore(eng[1].email, rid) = 0
    /\ \E other \in Ids \ {rid} : RecordsBefore(eng[1].email, other) >= 1
LastCallOk(t, rid) == CallsOf(t, rid)[Len(CallsOf(t, rid))].ok
\* a step leaves every record of an identifier other than the current rule's as it is
OtherRecordsKept ==
    \A n \in 1..Len(ledger) :
        ledger[n].rule_identifier /= CurrentRule(1) =>
            n <= Len(ledger') /\ ledger'[n] = ledger[n]

Deactivated(db) == [k \in 1..Len(db) |-> [db[k] EXCEPT !.active = FALSE]]
\* this step enters process_email and the rule query returns no row
EmptyPassStep ==
    /\ eng'[1].pass /= eng[1].pass
    /\ eng'[1].rules = <<>>

C14_InactiveNeverApplied ==
    reloads = 0 =>
        \A cfg \in InactiveConfigs :
            rulesDb = LoadRules(cfg) =>
                \A rid \in DeclaredInactive(cfg), m \in Msgs :
                    /\ callPasses[<<m, rid>>] = {}
                    /\ RecordCount(m, rid) = 0

(***************************************************************************)
(* C15.  A ledger read or write that fails.                                *)
(***************************************************************************)
\* the n-th event of the pass is a ledger query or commit that failed
LedgerFailureAt(t, n) ==
    \/ t[n].k = "fault"
    \/ t[n].k = "mark" /\ ~t[n].ok

\* C15: a failed ledger read or write is the last thing the pass does: the
\* exception has left process_email, and no rule is checked, evaluated or
\* applied after it
C15_LedgerFailureIsFatal ==
    \A n \in 1..Len(trace[1]) :
        LedgerFailureAt(trace[1], n) =>
            /\ n = Len(trace[1])
            /\ eng[1].pc = "raised"
            /\ eng[1].err \in {"OperationalError", "IntegrityError"}

\* the write of (m1, R1) failed after both port calls; R2 was never looked at
C15_FailedWriteEndsPass ==
    /\ eng[1].pc = "raised"
    /\ eng[1].err = "OperationalError"
    /\ Len(eng[1].rules) = 2
    /\ Len(CallsOf(trace[1], "R1")) = 2
    /\ trace[1][Len(trace[1])].op = "commit"
    /\ ~HasEvent(trace[1], "check", "R2")
    /\ RecordCount("m1", "R1") = 0

(***************************************************************************)
(* C16.  Evaluating a condition is total.                                  *)
(***************************************************************************)
\* C16: _evaluate_condition never raises; a missing (None) sender, subject
\* or body is compared as the empty string, and a received_date value that is
\* not an integer evaluates to false
C16_EvaluateNeverRaises ==
    /\ probe.kind \in {"string", "date"} => ~probe.raised
    /\ (probe.kind = "string" /\ probe.actual = NoneVal) =>
           probe.result = EvaluateStringCondition(probe.condition, <<>>)
    /\ (probe.kind = "date" /\ ~ParseInt(probe.condition.value).ok) => ~probe.result

(***************************************************************************)
(* C17.  The guard of received_date conditions.                            *)
(***************************************************************************)
\* the probed value texts that int() turns into a positive integer
PositiveTexts == { <<"1">>, <<"2">>, <<"0", "2">>, <<"+", "1">> }

\* C17: a received_date condition whose value is not an integer, or is zero
\* or negative, is false for every message, predicate and unit
C17_DateGuard ==
    (probe.kind = "date" /\ probe.condition.value \notin PositiveTexts) => ~probe.result

\* greater_than -1 days on a 45 day old message: false, though 45 > -1
C17_NegativeValueRefused ==
    /\ probe.kind = "date"
    /\ probe.condition.value = <<"-", "1">>
    /\ probe.condition.predicate = "greater_than"
    /\ probe.condition.unit = "days"
    /\ probe.age = 45
    /\ ~probe.email.received_date.aware
    /\ ~probe.result

(***************************************************************************)
(* C18.  The age comparison of received_date conditions.                   *)
(***************************************************************************)
\* the integer a positive value text stands for
TextValue(text) ==
    CASE text = <<"1">> -> 1
      [] text = <<"2">> -> 2
      [] text = <<"0", "2">> -> 2
      [] text = <<"+", "1">> -> 1

\* days the condition's value and unit stand for
Duration(condition) ==
    IF condition.unit = "months" THEN TextValue(condition.value) * 30
    ELSE TextValue(condition.value)

\* C18: for a positive value, less_than holds exactly when the age of the
\* message is below the duration (value days, or value * 30 days for months)
\* and greater_than exactly when it is above; at equal age neither holds
C18_DateComparison ==
    (probe.kind = "date" /\ probe.condition.value \in PositiveTexts) =>
        /\ probe.condition.predicate = "less_than" =>
               (probe.result <=> probe.age < Duration(probe.condition))
        /\ probe.condition.predicate = "greater_than" =>
               (probe.result <=> probe.age > Duration(probe.condition))

(***************************************************************************)
(* C19.  String predicates.                                                *)
(***************************************************************************)
\* the same letter, in either case
SameLetter(c, d) == c = d \/ {c, d} = {"a", "A"} \/ {c, d} = {"b", "B"}
\* needle occurs in hay at offset k, case ignored
MatchesAt(needle, hay, k) ==
    \A i \in 1..Len(needle) : SameLetter(needle[i], hay[k + i])
ContainsIgnoringCase(needle, hay) ==
    \E k \in 0..(Len(hay) - Len(needle)) : MatchesAt(needle, hay, k)
EqualsIgnoringCase(a, b) == Len(a) = Len(b) /\ MatchesAt(a, b, 0)
\* the text the probed condition was compared with
Operand == OrEmpty(probe.actual)

\* C19: on from, subject and message, contains is substring search and equals
\* is equality of the whole strings, both ignoring case; does_not_contain and
\* does_not_equal are their negations
C19_StringPredicates ==
    (probe.kind = "string" /\ ~probe.raised) =>
        /\ probe.condition.predicate = "contains" =>
               (probe.result <=> ContainsIgnoringCase(probe.condition.value, Operand))
        /\ probe.condition.predicate = "does_not_contain" =>
               (probe.result <=> ~ContainsIgnoringCase(probe.condition.value, Operand))
        /\ probe.condition.predicate = "equals" =>
               (probe.result <=> EqualsIgnoringCase(probe.condition.value, Operand))
        /\ probe.condition.predicate = "does_not_equal" =>
               (probe.result <=> ~EqualsIgnoringCase(probe.condition.value, Operand))

\* from contains 'A' on the sender 'ba': found, in the other case and not at the start
C19_FoundInOtherCase ==
    /\ probe.kind = "string"
    /\ probe.condition.field = "from"
    /\ probe.condition.predicate = "contains"
    /\ probe.condition.value = <<"A">>
    /\ probe.actual = <<"b", "a">>
    /\ probe.result

(***************************************************************************)
(* C20.  A port call that returns False.                                   *)
(***************************************************************************)
\* this step is a port call of engine 1 that returned False
FailedCallStep ==
    /\ eng[1].pc = "act"
    /\ Len(trace'[1]) = Len(trace[1]) + 1
    /\ trace'[1][Len(trace'[1])].k = "call"
    /\ ~trace'[1][Len(trace'[1])].ok

\* C20: a port call returning False does not raise and leaves the message as
\* it was, in the database and in memory; the loop goes on to the rule's next
\* action, so every action of a matched rule is attempted
C20_ActionFailureNonFatal ==
    /\ [][FailedCallStep =>
            /\ emails' = emails
            /\ eng'[1].pc /= "raised"
            /\ eng'[1].err = NoneVal
            /\ eng'[1].pc /= "idle" => eng'[1].mail = eng[1].mail
            /\ eng[1].j < Len(eng[1].actions) =>
                   /\ eng'[1].pc = "act"
                   /\ eng'[1].i = eng[1].i
                   /\ eng'[1].j = eng[1].j + 1]_vars
    /\ [](\A rid \in Ids :
            (Matched(trace[1], rid) /\ ~(eng[1].pc = "act" /\ CurrentRule(1) = rid)) =>
                Len(CallsOf(trace[1], rid)) = Len(ActionsIn(trace[1], rid)))

\* mark_as_read failed on m1, the move after it was still called and succeeded
C20_MovedAfterFailedRead ==
    /\ eng[1].email = "m1"
    /\ Len(CallsOf(trace[1], "R1")) = 2
    /\ CallsOf(trace[1], "R1")[1].op = "mark_as_read"
    /\ ~CallsOf(trace[1], "R1")[1].ok
    /\ CallsOf(trace[1], "R1")[2].ok
    /\ ~emails["m1"].is_read
    /\ emails["m1"].current_label = "Archive"

(***************************************************************************)
(* C21 .. C30                                                              *)
(***************************************************************************)
\* rows of the pair in a ledger
PairRows(led, m, rid) ==
    {k \in 1..Len(led) : led[k].gmail_id = m /\ led[k].rule_identifier = rid}
\* rows of the message in a ledger
MessageRows(led, m) == {k \in 1..Len(led) : led[k].gmail_id = m}

\* C21: _is_already_processed returns true exactly when the pair has a record;
\* with records under other identifiers only it returns false and the
\* identifier of a record of the message with the latest processed_at; with no
\* record of the message it returns false and ''
C21_IsProcessedResult ==
    probe.kind = "check" =>
        LET led  == probe.before
            m    == probe.gmail_id
            rid  == probe.rule_identifier
            was  == probe.result[1]
            prev == probe.result[2]
        IN  /\ was <=> PairRows(led, m, rid) /= {}
            /\ was => prev = rid
            /\ MessageRows(led, m) = {} => prev = ""
            /\ (~was /\ MessageRows(led, m) /= {}) =>
                   \E k \in MessageRows(led, m) :
                       /\ led[k].rule_identifier = prev
                       /\ \A q \in MessageRows(led, m) :
                              led[q].processed_at <= led[k].processed_at

\* m1 has (R1, refreshed on day 1) and (R2, day 0); asked about R3 the answer
\* is false with R1, the older row but the later stamp
C21_LatestIsNotLastRow ==
    /\ probe.kind = "check"
    /\ probe.gmail_id = "m1"
    /\ probe.rule_identifier = "R3"
    /\ Len(ledger) = 2
    /\ ledger[1] = [gmail_id |-> "m1", rule_identifier |-> "R1", processed_at |-> 1]
    /\ ledger[2] = [gmail_id |-> "m1", rule_identifier |-> "R2", processed_at |-> 0]
    /\ probe.result = <<FALSE, "R1">>

(***************************************************************************)
(* C22.  _mark_as_processed called in sequence.                            *)
(***************************************************************************)
\* C22: with no record of the pair the call appends exactly one; with a
\* record it only sets that record's processed_at; either way the pair has
\* exactly one record afterwards and every other record is as before
C22_MarkIsUpsert ==
    probe.kind = "mark" =>
        LET led == probe.before
            m   == probe.gmail_id
            rid == probe.rule_identifier
        IN  /\ Cardinality(PairRows(ledger, m, rid)) = 1
            /\ \A k \in 1..Len(led) :
                   /\ k <= Len(ledger)
                   /\ ledger[k].gmail_id = led[k].gmail_id
                   /\ ledger[k].rule_identifier = led[k].rule_identifier
                   /\ k \notin PairRows(led, m, rid) => ledger[k] = led[k]
            /\ \A k \in PairRows(ledger, m, rid) : ledger[k].processed_at = probe.clock
            /\ Len(ledger) = IF PairRows(led, m, rid) = {} THEN Len(led) + 1 ELSE Len(led)

\* the third call is the second for (m1, R1), a day later: still two rows,
\* the first with the new stamp, the row of (m1, R2) untouched
C22_RefreshedInPlace ==
    /\ probe.kind = "mark"
    /\ probe.n = 3
    /\ probe.gmail_id = "m1" /\ probe.rule_identifier = "R1"
    /\ probe.before = <<[gmail_id |-> "m1", rule_identifier |-> "R1", processed_at |-> 0],
                        [gmail_id |-> "m1", rule_identifier |-> "R2", processed_at |-> 0]>>
    /\ ledger = <<[gmail_id |-> "m1", rule_identifier |-> "R1", processed_at |-> 1],
                  [gmail_id |-> "m1", rule_identifier |-> "R2", processed_at |-> 0]>>

(***************************************************************************)
(* C23.  Order of the steps of one pass.                                   *)
(***************************************************************************)
\* position of the rule in the list the pass iterates over
RuleIndex(rid) ==
    CHOOSE k \in 1..Len(eng[1].rules) : eng[1].rules[k].identifier = rid
\* order of the steps taken for one rule
KindRank(k) ==
    CASE k = "check" -> 1
      [] k = "eval" -> 2
      [] k = "call" -> 3
      [] k = "mark" -> 4
      [] OTHER -> 5

\* the steps of the pass so far are in the order of the rules and, for one
\* rule, in the order check, evaluation, port calls, ledger write; the port
\* calls of a rule are those of its actions as declared, in that order
PassOrdered ==
    /\ \A n \in 1..Len(trace[1]), q \in 1..Len(trace[1]) :
           n < q =>
               \/ RuleIndex(trace[1][n].rid) < RuleIndex(trace[1][q].rid)
               \/ /\ trace[1][n].rid = trace[1][q].rid
                  /\ KindRank(trace[1][n].k) <= KindRank(trace[1][q].k)
                  /\ KindRank(trace[1][n].k) = KindRank(trace[1][q].k) =>
                         trace[1][n].k = "call"
    /\ ~Quiet(1) =>
           \A rid \in IdsOf(eng[1].rules) :
               LET declared == rulesDb[eng[1].rules[RuleIndex(rid)].id].actions
                   calls    == CallsOf(trace[1], rid)
               IN  /\ Len(calls) <= Len(declared)
                   /\ \A k \in 1..Len(calls) :
                          /\ calls[k].op = declared[k].action_type
                          /\ calls[k].arg[2] = declared[k].action_value

\* C23: in a pass the steps of an earlier rule all come before the steps of a
\* later rule, and for one rule the ledger check, the evaluation, the port
\* calls and the ledger write come in this order; the port calls of a rule are
\* those of its actions as declared, in that order
C23_PassOrder == []PassOrdered

\* R1 checked, evaluated, read, moved and recorded; then R2 checked, evaluated
\* and its action called, its record about to be written
C23_TwoRulesInOrder ==
    /\ eng[1].pc = "markc"
    /\ Len(trace[1]) = 8
    /\ trace[1][3].op = "mark_as_read" /\ trace[1][4].op = "move_message"
    /\ trace[1][5].k = "mark" /\ trace[1][5].rid = "R1"
    /\ trace[1][6].k = "check" /\ trace[1][6].rid = "R2"
    /\ trace[1][8].k = "call" /\ trace[1][8].rid = "R2"

(***************************************************************************)
(* C24.  A recorded pair whose rule still matches.                         *)
(***************************************************************************)
\* the pass is under way and has left the rule behind
PassedRule(rid) ==
    /\ ~Quiet(1)
    /\ rid \in IdsOf(eng[1].rules)
    /\ RuleIndex(rid) < eng[1].i
\* the conditions of the rule, as stored, hold for the message of the pass
StillMatches(rid) ==
    LET rule == eng[1].rules[RuleIndex(rid)]
    IN  EvaluateRule(rule, ConditionsOf(rulesDb, rule.id),
                     EmailObject(eng[1].email, eng[1].mail), now)

\* C24 as stated: when the pair was already recorded and the rule's
\* conditions match the message again, the pass refreshes the record's
\* processed_at
C24_RefreshOnRematch ==
    \A rid \in Ids :
        (PassedRule(rid) /\ Skipped(trace[1], rid) /\ StillMatches(rid)) =>
            \E n \in 1..Len(trace[1]) :
                /\ trace[1][n].k = "mark"
                /\ trace[1][n].rid = rid
                /\ trace[1][n].op = "update"

\* a rule found recorded has no evaluation and no ledger write in the pass,
\* every ledger write of the pass is an insert, and every record carries the
\* time of its one write
RecordedPairKept ==
    /\ \A rid \in Ids :
           Skipped(trace[1], rid) =>
               /\ ~HasEvent(trace[1], "eval", rid)
               /\ ~HasEvent(trace[1], "mark", rid)
    /\ \A n \in 1..Len(trace[1]) : trace[1][n].k = "mark" => trace[1][n].op = "insert"
    /\ \A m \in Msgs, rid \in Ids :
           /\ markWrites[<<m, rid>>] = RecordCount(m, rid)
           /\ RecordCount(m, rid) <= 1

\* C24 (amended): a pass that finds the pair recorded skips the rule without
\* evaluating it and without calling _mark_as_processed; every record is
\* written once, when it is inserted, and its processed_at is never refreshed
C24_RecordedPairNotRefreshed == []RecordedPairKept

\* m1 was recorded for R1 on day 0; the pass of day 1 skipped R1, whose
\* condition still holds, and the record still carries day 0
C24_SkippedWithOldStamp ==
    /\ Quiet(1)
    /\ eng[1].pass = 2
    /\ eng[1].email = "m1"
    /\ Skipped(trace[1], "R1")
    /\ EvaluateCondition(FromHasA, EmailObject("m1", emails["m1"]), now)
    /\ now = 1
    /\ ledger = <<[gmail_id |-> "m1", rule_identifier |-> "R1", processed_at |-> 0]>>

(***************************************************************************)
(* C25.  The ledger only grows.                                            *)
(***************************************************************************)
\* every row is still there after the step, for the same message and identifier
RowsKept ==
    \A k \in 1..Len(ledger) :
        /\ k <= Len(ledger')
        /\ ledger'[k].gmail_id = ledger[k].gmail_id
        /\ ledger'[k].rule_identifier = ledger[k].rule_identifier

\* C25: no step of a pass and no load_rules removes a ledger row or changes
\* its message or identifier, and a ledger check for a pair that was recorded
\* before the pass answers that it is processed
C25_LedgerNeverShrinks ==
    /\ [][RowsKept]_vars
    /\ [](\A n \in 1..Len(trace[1]) :
            (trace[1][n].k = "check" /\ RecordsBefore(eng[1].email, trace[1][n].rid) >= 1)
                => trace[1][n].ok)

\* m1 was recorded for R1, the rules were loaded again with R1 among them,
\* and the pass of the new run skipped R1
C25_SkippedAfterReload ==
    /\ reloads = 1
    /\ eng[1].pass = 2
    /\ eng[1].email = "m1"
    /\ IdsOf(last[1].rules) = {"R1"}
    /\ IdsOf(eng[1].rules) = {"R1", "R2"}
    /\ Skipped(trace[1], "R1")
    /\ RecordCount("m1", "R1") = 1

(***************************************************************************)
(* C26.  What the marking of a rule depends on.                            *)
(***************************************************************************)
\* what the port returned for the rule's own actions in a pass, in order
OwnOutcomes(t, rid) == [k \in 1..Len(CallsOf(t, rid)) |-> CallsOf(t, rid)[k].ok]

\* C26: two passes over the same message in which the rule matched and its
\* own actions had the same outcomes agree on whether the rule was marked,
\* whatever the actions of the rules before it returned
C26_MarkingDependsOnOwnActions ==
    \A rid \in Ids :
        ( /\ Quiet(1)
          /\ last[1].pass > 0
          /\ last[1].email = eng[1].email
          /\ Matched(last[1].trace, rid)
          /\ Matched(trace[1], rid)
          /\ ActionsIn(last[1].trace, rid) = ActionsIn(trace[1], rid)
          /\ OwnOutcomes(last[1].trace, rid) = OwnOutcomes(trace[1], rid) )
        => (MarksIn(last[1].trace, rid) >= 1 <=> MarksIn(trace[1], rid) >= 1)

(***************************************************************************)
(* C27.  What matching can see of the message.                             *)
(***************************************************************************)
\* the values the engine can give to is_read and current_label
MailStates == [is_read : BOOLEAN, current_label : {"INBOX", "Archive"}]

\* conditions over every field name a rule file can give, the two mutable
\* fields of the message included
MatchConditions ==
    {Cond(f, p, v, u) : f \in StringFields \cup {"received_date", "is_read", "current_label"},
                        p \in StringPredicates \cup DatePredicates,
                        v \in {<<"A">>, <<"b">>, <<"1">>},
                        u \in {"days", "months"}}

\* C27 as stated: an earlier rule's change of is_read or current_label can
\* change a later rule's match, so some condition tells apart two states of
\* a message that differ in these fields only
C27_LaterMatchCanDiffer ==
    \E c \in MatchConditions, m \in Msgs, before \in MailStates, after \in MailStates :
        EvaluateCondition(c, EmailObject(m, before), now)
            /= EvaluateCondition(c, EmailObject(m, after), now)

\* C27 (amended): the rule is evaluated on the message as the earlier rules
\* of the pass left it, but its result is the same for every value of is_read
\* and current_label
C27_MatchIgnoresMutableFields ==
    eng[1].pc = "eval" =>
        LET r == eng[1]
            rule == r.rules[r.i]
            conditions == ConditionsOf(rulesDb, rule.id)
        IN  \A mail \in MailStates :
                EvaluateRule(rule, conditions, EmailObject(r.email, mail), now)
                    = EvaluateRule(rule, conditions, EmailObject(r.email, r.mail), now)

\* R2 is about to be evaluated on m1, which R1 has just marked read and moved
C27_EvaluatedAfterChange ==
    /\ eng[1].pc = "eval"
    /\ eng[1].i = 2
    /\ eng[1].email = "m1"
    /\ eng[1].mail = [is_read |-> TRUE, current_label |-> "Archive"]
    /\ Len(CallsOf(trace[1], "R1")) = 2
    /\ ConditionsOf(rulesDb, 2) /= <<>>

(***************************************************************************)
(* C28.  The dispatcher and the message's in-memory state.                 *)
(***************************************************************************)
\* the engine is in the action loop at an action of a known type, and steps
DispatchStep ==
    /\ eng[1].pc = "act"
    /\ eng[1].actions[eng[1].j].action_type \in {"mark_as_read", "mark_as_unread", "move_message"}
    /\ eng'[1] /= eng[1]
\* the message with the field the action is about set to the action's value
Effected(mail, action) ==
    [is_read |-> IF action.action_type = "mark_as_read" THEN TRUE
                 ELSE IF action.action_type = "mark_as_unread" THEN FALSE
                 ELSE mail.is_read,
     current_label |-> IF action.action_type = "move_message" THEN action.action_value
                       ELSE mail.current_label]
\* the calls of a trace for one port method on one message
PortCalls(t, op, m) ==
    SelectSeq(t, LAMBDA ev : ev.k = "call" /\ ev.op = op /\ ev.arg[1] = m)

\* C28: every action of a matched unprocessed rule issues exactly one call of
\* its port method, whatever is_read and current_label are in memory, and the
\* field is set exactly when the call returns True
C28_NoCallSkipped ==
    [][DispatchStep =>
          LET r == eng[1]
              action == r.actions[r.j]
              t == trace'[1]
              call == t[Len(t)]
          IN  /\ Len(t) = Len(trace[1]) + 1
              /\ SubSeq(t, 1, Len(trace[1])) = trace[1]
              /\ call.k = "call"
              /\ call.op = action.action_type
              /\ call.rid = r.rules[r.i].identifier
              /\ call.arg = <<r.email, action.action_value>>
              /\ emails'[r.email] = IF call.ok THEN Effected(r.mail, action) ELSE r.mail
              /\ eng'[1].pc /= "idle" =>
                     eng'[1].mail = IF call.ok THEN Effected(r.mail, action) ELSE r.mail]_vars

\* m1 was marked read and moved to Archive in the pass before; in this pass
\* both calls were issued again on the message as that pass left it
C28_CalledAgainOnSameState ==
    /\ last[1].email = "m1"
    /\ eng[1].email = "m1"
    /\ AllCallsOk(last[1].trace)
    /\ Len(PortCalls(last[1].trace, "mark_as_read", "m1")) = 1
    /\ Len(PortCalls(last[1].trace, "move_message", "m1")) = 1
    /\ Len(PortCalls(trace[1], "mark_as_read", "m1")) = 1
    /\ Len(PortCalls(trace[1], "move_message", "m1")) = 1
    /\ trace[1][Len(trace[1])].k = "call"
    /\ trace[1][Len(trace[1])].arg = <<"m1", "Archive">>
    /\ emails["m1"] = [is_read |-> TRUE, current_label |-> "Archive"]

(***************************************************************************)
(* C29.  The mutation port never raises.                                   *)
(***************************************************************************)
\* the last call was a port call whose request named by its fault was issued
\* and failed
FaultHit ==
    \/ probe.fault = "get"
    \/ probe.fault = "labels" /\ probe.op = "move_message"
          /\ probe.msg_id \in Msgs /\ probe.destination \in {"Archive", "Missing"}
    \/ probe.fault \in {"modify", "reread"} /\ probe.modifies = 1

\* C29: mark_as_read, mark_as_unread and move_message raise nothing; they
\* return False for an unknown message id, for a destination label the account
\* does not have, for a failed modify request and for a failed read after the
\* modify
C29_PortNeverRaises ==
    probe.kind = "port" =>
        /\ probe.exc = "none"
        /\ probe.msg_id \notin Msgs => ~probe.ret
        /\ (probe.op = "move_message" /\ probe.destination = "Missing") => ~probe.ret
        /\ FaultHit => ~probe.ret

\* the read after a modify request that went through failed, and
\* mark_as_read returned False
C29_FailedRereadReturnsFalse ==
    /\ probe.kind = "port"
    /\ probe.op = "mark_as_read"
    /\ probe.fault = "reread"
    /\ probe.modifies = 1
    /\ mailbox /= probe.before
    /\ probe.exc = "none"
    /\ ~probe.ret

(***************************************************************************)
(* C30.  Repeating a port call.                                            *)
(***************************************************************************)
\* the message of the last call already had the read state the call asks for
AlreadyThere ==
    /\ probe.msg_id \in Msgs
    /\ probe.fault /= "get"
    /\ \/ probe.op = "mark_as_read" /\ "UNREAD" \notin probe.before[probe.msg_id]
       \/ probe.op = "mark_as_unread" /\ "UNREAD" \in probe.before[probe.msg_id]

\* C30: mark_as_read on a read message and mark_as_unread on an unread one
\* return True, issue no modify request and leave the labels as they were; a
\* call that repeats the call before it, which returned True, leaves the
\* account as that call left it and returns True unless one of its requests
\* fails
C30_PortIdempotent ==
    probe.kind = "port" =>
        /\ AlreadyThere =>
               /\ probe.ret
               /\ probe.modifies = 0
               /\ mailbox = probe.before
        /\ probe.repeats =>
               /\ mailbox = probe.before
               /\ probe.fault = "none" => probe.ret

\* m1 moved to Archive twice in a row: the second call sent the modify request
\* again, returned True and left the labels as the first call left them
C30_MovedTwice ==
    /\ probe.kind = "port"
    /\ probe.repeats
    /\ probe.op = "move_message"
    /\ probe.msg_id = "m1"
    /\ probe.destination = "Archive"
    /\ probe.modifies = 1
    /\ probe.ret
    /\ mailbox = probe.before
    /\ mailbox /= InitialMailbox

(***************************************************************************)
(* C31 .. C39                                                              *)
(***************************************************************************)
(***************************************************************************)
(* C31.  What a pass may change of a message.                              *)
(***************************************************************************)
\* the step appends this kind of event, with this outcome, to the pass
StepAppends(k, ok) ==
    /\ Len(trace'[1]) = Len(trace[1]) + 1
    /\ trace'[1][Len(trace'[1])].k = k
    /\ trace'[1][Len(trace'[1])].ok = ok

\* C31: no step adds or removes a message; a stored message changes only in
\* a step that is a successful port call of the pass over that message, and
\* then only in the field of the action (is_read for mark_as_read and
\* mark_as_unread, current_label for move_message); a step that skips a rule
\* or finds it not matching changes no message, stored or in memory
C31_Frame ==
    [][/\ DOMAIN emails' = DOMAIN emails
       /\ \A m \in Msgs :
              emails'[m] /= emails[m] =>
                  /\ m = eng[1].email
                  /\ eng[1].pc = "act"
                  /\ StepAppends("call", TRUE)
                  /\ trace'[1][Len(trace'[1])].op = "move_message" =>
                         emails'[m].is_read = emails[m].is_read
                  /\ trace'[1][Len(trace'[1])].op /= "move_message" =>
                         emails'[m].current_label = emails[m].current_label
       /\ (StepAppends("check", TRUE) \/ StepAppends("eval", FALSE)) =>
              /\ emails' = emails
              /\ eng'[1].pc /= "idle" => eng'[1].mail = eng[1].mail]_vars

\* m1 was marked read and moved by an earlier pass; the pass over m2 found
\* R1 not matching and left both messages as they were
C31_NoMatchAfterChange ==
    /\ Quiet(1)
    /\ eng[1].email = "m2"
    /\ Len(trace[1]) = 2
    /\ trace[1][2].k = "eval" /\ ~trace[1][2].ok
    /\ emails["m1"] = [is_read |-> TRUE, current_label |-> "Archive"]
    /\ emails["m2"] = EmailDefaults

(***************************************************************************)
(* C32.  The message after a pass.                                         *)
(***************************************************************************)
\* the message after the port calls of a trace that returned True, applied in
\* the order of the trace; the other calls and events apply nothing
RECURSIVE Accumulate(_, _)
Accumulate(start, t) ==
    IF t = <<>> THEN start
    ELSE LET ev == Head(t)
             next == IF ev.k = "call" /\ ev.ok
                     THEN [is_read |-> IF ev.op = "mark_as_read" THEN TRUE
                                       ELSE IF ev.op = "mark_as_unread" THEN FALSE
                                       ELSE start.is_read,
                           current_label |-> IF ev.op = "move_message" THEN ev.arg[2]
                                             ELSE start.current_label]
                     ELSE start
         IN  Accumulate(next, Tail(t))
\* the successful calls of a trace for the given port methods
OkCalls(t, ops) == SelectSeq(t, LAMBDA ev : ev.k = "call" /\ ev.ok /\ ev.op \in ops)
\* no pass before the engine's pass issued a port call on its message
FirstTouch ==
    \A rid \in Ids : callPasses[<<eng[1].email, rid>>] \subseteq {eng[1].pass}

\* during and after a pass over a message: the last successful read or unread
\* call of the pass gives is_read and the last successful move gives
\* current_label, and when no earlier pass called the port on the message its
\* fields are those of a new message with the successful calls applied in order
AccumulatedState ==
    eng[1].pass >= 1 =>
        LET m == eng[1].email
            reads == OkCalls(trace[1], {"mark_as_read", "mark_as_unread"})
            moves == OkCalls(trace[1], {"move_message"})
        IN  /\ reads /= <<>> =>
                   emails[m].is_read = (reads[Len(reads)].op = "mark_as_read")
            /\ moves /= <<>> =>
                   emails[m].current_label = moves[Len(moves)].arg[2]
            /\ FirstTouch => emails[m] = Accumulate(EmailDefaults, trace[1])
            /\ ~Quiet(1) => eng[1].mail = emails[m]

\* C32: after a pass the message's is_read and current_label are the values
\* obtained by applying, in rule order and declared action order, the actions
\* whose port call returned True; failed actions contribute nothing
C32_AccumulatedState == []AccumulatedState

\* a finished pass over m1 in which mark_as_read succeeded and move_message
\* failed: m1 is read and still in the inbox
C32_ReadButNotMoved ==
    /\ Quiet(1)
    /\ eng[1].email = "m1"
    /\ FirstTouch
    /\ Len(CallsOf(trace[1], "R1")) = 2
    /\ CallsOf(trace[1], "R1")[1].ok
    /\ ~CallsOf(trace[1], "R1")[2].ok
    /\ CallsOf(trace[1], "R1")[2].op = "move_message"
    /\ emails["m1"] = [is_read |-> TRUE, current_label |-> "INBOX"]

(***************************************************************************)
(* C33.  Rule identifiers are unique.                                      *)
(***************************************************************************)
\* no two rows of the table have the same identifier
UniqueIdentifiers(rows) ==
    \A k \in 1..Len(rows), q \in 1..Len(rows) :
        rows[k].identifier = rows[q].identifier => k = q
\* the file gives an identifier to two rules
HasDuplicate(cfg) ==
    \E k \in 1..Len(cfg), q \in 1..Len(cfg) :
        k /= q /\ cfg[k].identifier = cfg[q].identifier

\* C33: no two rules share an identifier, in the committed rule store and in
\* the rows a load has flushed; a load of a file with an identifier given
\* twice never completes: it ends raising
C33_IdentifiersUnique ==
    /\ UniqueIdentifiers(rulesDb)
    /\ UniqueIdentifiers(Pending)
    /\ (probe.kind = "load" /\ HasDuplicate(probe.cfg)) => probe.pc /= "done"
    /\ (probe.kind = "load" /\ probe.pc = "insert" /\ probe.k = Len(probe.cfg)) =>
           ~HasDuplicate(probe.cfg)

\* the load of [R3, R1, R1] flushed R3 and R1 and raised at the second R1
C33_DuplicateRefused ==
    /\ probe.kind = "load"
    /\ probe.pc = "raised"
    /\ probe.err = "IntegrityError"
    /\ Len(probe.cfg) = 3
    /\ probe.k = 2
    /\ UniqueIdentifiers(rulesDb)

(***************************************************************************)
(* C37.  load_rules is all-or-nothing.                                     *)
(***************************************************************************)
\* C37: after a load that completed the store holds the rules of the file;
\* after a load that raised the store holds what it held before the call
C37_LoadAllOrNothing ==
    probe.kind = "load" =>
        /\ probe.pc = "done" => rulesDb = LoadRules(probe.cfg)
        /\ probe.pc = "raised" => rulesDb = probe.before

(***************************************************************************)
(* C34.  Conditions outside the vocabulary.                                *)
(***************************************************************************)
\* C34: a condition with an unknown field, with an unknown predicate, or with
\* a predicate of the other kind of field evaluates to False on every
\* message, and the evaluation does not raise
C34_FailClosed ==
    probe.kind = "misapplied" => (~probe.raised /\ ~probe.result)

(***************************************************************************)
(* C35.  Ledger records have a cause.                                      *)
(***************************************************************************)
\* the trace has a port call of the rule that returned True
HasOkCall(t, rid) == \E n \in 1..Len(t) : t[n].k = "call" /\ t[n].rid = rid /\ t[n].ok

\* C35: a record for (M, R) is there only if some pass over M wrote it after R
\* matched M and a port call of an action of R returned True; a rule found
\* not matching is not recorded in that pass and is evaluated, not skipped, in
\* the next pass over the message
C35_RecordsHaveCause ==
    /\ \A m \in Msgs, rid \in Ids :
           RecordCount(m, rid) >= 1 =>
               /\ markWrites[<<m, rid>>] >= 1
               /\ callPasses[<<m, rid>>] /= {}
    /\ \A rid \in Ids :
           HasEvent(trace[1], "mark", rid) =>
               /\ Matched(trace[1], rid)
               /\ HasOkCall(trace[1], rid)
    /\ \A rid \in Ids :
           (HasEvent(trace[1], "eval", rid) /\ ~Matched(trace[1], rid)) =>
               ~HasEvent(trace[1], "mark", rid)
    /\ \A rid \in Ids :
           ( /\ last[1].pass >= 1
             /\ last[1].email = eng[1].email
             /\ HasEvent(last[1].trace, "eval", rid)
             /\ ~Matched(last[1].trace, rid)
             /\ HasEvent(trace[1], "check", rid) )
           => ~Skipped(trace[1], rid)

(***************************************************************************)
(* C36.  A matched rule with an empty action list.                         *)
(***************************************************************************)
\* C36: when a rule that matched has no actions, no port call is made for it
\* and the pass does not raise at it, whether it is the first rule of the
\* pass or a later one
C36_EmptyActionListCompletes ==
    \A rid \in Ids :
        (Matched(trace[1], rid) /\ ActionsIn(trace[1], rid) = <<>>) =>
            /\ CallsOf(trace[1], rid) = <<>>
            /\ ~( /\ eng[1].pc = "raised"
                  /\ eng[1].err = "UnboundLocalError"
                  /\ trace[1][Len(trace[1])].rid = rid )

(***************************************************************************)
(* C38.  Date conditions on fetched and on stored messages.                *)
(***************************************************************************)
\* C38: on a message whose received timestamp is timezone-aware, as
\* message_to_email builds it, a received_date condition with a positive value
\* gives what it gives on the same instant stored naive: less_than when the
\* age is below the duration, greater_than when it is above
C38_AwareAsNaive ==
    ( /\ probe.kind = "date"
      /\ probe.email.received_date.aware
      /\ probe.condition.value \in PositiveTexts
      /\ probe.condition.predicate \in DatePredicates )
    => /\ ~probe.raised
       /\ probe.result =
              EvaluateDateCondition(probe.condition,
                                    [days |-> 0 - probe.age, aware |-> FALSE], 0)
       /\ probe.result = IF probe.condition.predicate = "less_than"
                         THEN probe.age < Duration(probe.condition)
                         ELSE probe.age > Duration(probe.condition)

(***************************************************************************)
(* C39.  list_all_messages and its limit.                                  *)
(***************************************************************************)
\* C39: a call with max_total = N, N >= 0, returns at most N messages; a call
\* without a limit whose requests all succeed returns the messages of all
\* pages in page order
C39_AtMostMaxTotal ==
    (probe.kind = "list" /\ probe.pc = "done") =>
        /\ probe.limited => Len(probe.messages) <= probe.max_total
        /\ (~probe.limited /\ ~probe.failed) => probe.messages = Listing(probe.total)

====
